---- MODULE Spec2Model ----
(***************************************************************************)
(* Lending pool auction engine (lending-pool/src/auctions/auction.rs).     *)
(*                                                                         *)
(* Amounts are i128 values scaled to 7 decimals.  TLC evaluates 32-bit     *)
(* integers, so products are computed by MulDiv (quotient and remainder    *)
(* without a wide intermediate) and block_dif, which exceeds 32 bits       *)
(* after 214 blocks, is held as [whole, frac] = whole * SCALAR_7 + frac.   *)
(***************************************************************************)
EXTENDS Integers, Sequences, FiniteSets, TLC

SCALAR_7 == 10000000

SCALAR_9 == 1000000000

\* ------------------------------------------------------------------------
\* Bounds of the model
\* ------------------------------------------------------------------------

\* blocks added to the ledger sequence by one step of the pool's ledger
LedgerStep == 100

\* number of ledger steps the pool is followed for
MaxLedgerSteps == 5

\* an auction is created in the first MaxCreateSteps ledger steps
MaxCreateSteps == 1

\* the decay curve is followed for this many blocks after creation
MaxElapsed == 402

\* first creation block of the decay curve runs is drawn from 0..MaxCurveBlock
MaxCurveBlock == 1

\* b-token and d-token balances valued by UserData::load are 0 or MaxShares
MaxShares == 4

\* ------------------------------------------------------------------------
\* Fixed point arithmetic (fixed_point_math::FixedPoint on i128)
\* ------------------------------------------------------------------------

RECURSIVE MulDivRec(_, _, _)
\* <<quotient, remainder>> of a * b / d for a, b >= 0 and d > 0, by halving b
MulDivRec(a, b, d) ==
    IF b = 0 THEN <<0, 0>>
    ELSE LET h  == MulDivRec(a, b \div 2, d)
             q2 == 2 * h[1] + ((2 * h[2]) \div d)
             r2 == (2 * h[2]) % d
             s  == r2 + (a % d)
         IN  IF b % 2 = 0 THEN <<q2, r2>>
             ELSE <<q2 + (a \div d) + (s \div d), s % d>>

\* <<quotient, remainder>> of a * b / d, halving the smaller factor
MulDiv(a, b, d) == IF a < b THEN MulDivRec(b, a, d) ELSE MulDivRec(a, b, d)

\* floor(x * y / denominator); a negative product rounds toward minus infinity
fixed_mul_floor(x, y, denominator) ==
    LET ax == IF x < 0 THEN 0 - x ELSE x
        ay == IF y < 0 THEN 0 - y ELSE y
        qr == MulDiv(ax, ay, denominator)
    IN  IF (x < 0) = (y < 0) THEN qr[1]
        ELSE IF qr[2] = 0 THEN 0 - qr[1] ELSE 0 - (qr[1] + 1)

\* ceil(x * y / denominator)
fixed_mul_ceil(x, y, denominator) ==
    LET ax == IF x < 0 THEN 0 - x ELSE x
        ay == IF y < 0 THEN 0 - y ELSE y
        qr == MulDiv(ax, ay, denominator)
    IN  IF (x < 0) = (y < 0)
        THEN (IF qr[2] = 0 THEN qr[1] ELSE qr[1] + 1)
        ELSE 0 - qr[1]

\* floor(x * denominator / y)
fixed_div_floor(x, y, denominator) == fixed_mul_floor(x, denominator, y)

\* ceil(x * denominator / y)
fixed_div_ceil(x, y, denominator) == fixed_mul_ceil(x, denominator, y)

\* a wide 7-decimal value whole * SCALAR_7 + frac
Scaled(whole, frac) == [whole |-> whole, frac |-> frac]

ScaledGt(a, b) == \/ a.whole > b.whole
                  \/ a.whole = b.whole /\ a.frac > b.frac

\* x.fixed_mul_floor(y, 1_0000000) for a wide x:
\* floor((w * S + f) * y / S) = w * y + floor(f * y / S)
scaled_fixed_mul_floor(x, y) == x.whole * y + fixed_mul_floor(x.frac, y, SCALAR_7)

\* ------------------------------------------------------------------------
\* Auction types and the decay curve
\* ------------------------------------------------------------------------

UserLiquidation == 0

BadDebtAuction == 1

InterestAuction == 2

per_block_scalar == 50000

\* (bid modifier, lot modifier) of auction_data at ledger sequence seq.
\* The u32 subtraction seq - auction_data.block is taken with seq >= block:
\* a record is stamped with the sequence at creation and the ledger only advances.
get_fill_modifiers_WrongScalar(seq, auction_data) ==
    LET block_dif == Scaled(seq - auction_data.block, 0)
        wrong_scalar == per_block_scalar \div 2
    IN  IF ScaledGt(block_dif, Scaled(400, 0))
        THEN <<0, SCALAR_7>>
        ELSE IF ScaledGt(block_dif, Scaled(200, 0))
        THEN <<2 * SCALAR_7 - scaled_fixed_mul_floor(block_dif, wrong_scalar), SCALAR_7>>
        ELSE <<SCALAR_7, scaled_fixed_mul_floor(block_dif, wrong_scalar)>>

get_fill_modifiers_BidFromOne(seq, auction_data) ==
    LET block_dif == Scaled(seq - auction_data.block, 0)
    IN  IF ScaledGt(block_dif, Scaled(400, 0))
        THEN <<0, SCALAR_7>>
        ELSE IF ScaledGt(block_dif, Scaled(200, 0))
        THEN <<SCALAR_7 - scaled_fixed_mul_floor(block_dif, per_block_scalar), SCALAR_7>>
        ELSE <<SCALAR_7, scaled_fixed_mul_floor(block_dif, per_block_scalar)>>

get_fill_modifiers_Swapped(seq, auction_data) ==
    LET block_dif == Scaled(seq - auction_data.block, 0)
    IN  IF ScaledGt(block_dif, Scaled(400, 0))
        THEN <<0, SCALAR_7>>
        ELSE IF ScaledGt(block_dif, Scaled(200, 0))
        THEN <<2 * SCALAR_7 - scaled_fixed_mul_floor(block_dif, per_block_scalar), SCALAR_7>>
        ELSE <<scaled_fixed_mul_floor(block_dif, per_block_scalar), SCALAR_7>>

get_fill_modifiers_EarlyDecay(seq, auction_data) ==
    LET block_dif == Scaled(seq - auction_data.block, 0)
    IN  IF ScaledGt(block_dif, Scaled(400, 0))
        THEN <<0, SCALAR_7>>
        ELSE IF ScaledGt(block_dif, Scaled(150, 0))
        THEN <<2 * SCALAR_7 - scaled_fixed_mul_floor(block_dif, per_block_scalar), SCALAR_7>>
        ELSE <<SCALAR_7, scaled_fixed_mul_floor(block_dif, per_block_scalar)>>

get_fill_modifiers(seq, auction_data) ==
    LET block_dif == Scaled(seq - auction_data.block, 0)
    IN  IF ScaledGt(block_dif, Scaled(400, 0))
        THEN <<0, SCALAR_7>>
        ELSE IF ScaledGt(block_dif, Scaled(200, 0))
        THEN <<2 * SCALAR_7 - scaled_fixed_mul_floor(block_dif, per_block_scalar), SCALAR_7>>
        ELSE <<SCALAR_7, scaled_fixed_mul_floor(block_dif, per_block_scalar)>>

\* ------------------------------------------------------------------------
\* State
\* ------------------------------------------------------------------------

VARIABLES
    sequence,       \* e.ledger().sequence()
    auctions,       \* storage: <<auction_type, subject>> -> AuctionData
    positions,      \* storage: address -> Positions (collateral and liability shares)
    d_supply,       \* reserve index -> reserve.d_supply
    bstop_credit,   \* reserve index -> interest accrued to the backstop
    prices,         \* oracle: reserve index -> price in the base unit
    balances,       \* reserve index -> address -> underlying token balance
    allowances,     \* reserve index -> address -> underlying allowance given to the pool
    bstop_balances, \* address -> backstop token balance
    reserve_config, \* reserve index -> factors and rates of the reserve
    b_supply,       \* reserve index -> reserve.b_supply
    pool_status,    \* 0 active, 1 on ice, 2 frozen
    timestamp,      \* e.ledger().timestamp()
    pool_emis_config, \* storage: PoolEmissionConfig (last_time, config)
    pool_emissions, \* storage: reserve token key -> share of the pool eps
    res_emis_config, \* storage: reserve token key -> ReserveEmissionsConfig
    res_emis_data,  \* storage: reserve token key -> ReserveEmissionsData
    token_storage,  \* storage of the b-token contract
    collateralized, \* addresses the pool reports as using the b-token as collateral
    result          \* outcome of the latest invocation

\* the reserves and the pool's status
reserve_state == <<reserve_config, b_supply, pool_status>>

\* the ledger entries of the emissions manager
emission_state == <<timestamp, pool_emis_config, pool_emissions,
                    res_emis_config, res_emis_data>>

\* the b-token contract and what the pool tells it
token_state == <<token_storage, collateralized>>

vars == <<sequence, auctions, positions, d_supply, bstop_credit, prices,
          balances, allowances, bstop_balances, reserve_state, emission_state,
          token_state, result>>

\* everything an invocation can write: all of the state but its own outcome
ledger_state == <<sequence, auctions, positions, d_supply, bstop_credit, prices,
                  balances, allowances, bstop_balances, reserve_state, emission_state,
                  token_state>>

Samwise == "samwise"

Frodo == "frodo"

Backstop == "backstop"

PoolAddress == "pool"

Addresses == {Samwise, Frodo, Backstop, PoolAddress}

\* users a liquidation is asked for
Users == {Samwise}

\* addresses that fill auctions
Fillers == {Frodo}

\* subjects an auction is looked up for
Subjects == {Samwise, Backstop}

ReserveIdx == {0, 1}

\* auction type codes an entry point is called with (3 is no auction type)
AuctionTypeCodes == 0 .. 3

\* key of the backstop token in the bid and lot maps of an auction
BACKSTOP_TOKEN_KEY == 2

\* prices the oracle reports for reserve 0
PriceChoices == {SCALAR_7, 2 * SCALAR_7, 3 * SCALAR_7}

\* funds of a filler: nothing or MaxFunds
MaxFunds == 8

EmptyMap == [i \in {} |-> 0]

MapOf(keys, f(_)) == [i \in keys |-> f(i)]

\* the reserves as the pool helper sets them up, with interest accrued on debt
setup_reserve ==
    [i \in ReserveIdx |->
        [c_factor |-> 7500000, l_factor |-> 7500000,
         b_rate |-> SCALAR_9, d_rate |-> 1100000000]]

\* no emission cycle has run and no shares are set
\* Option values of the contract storage: nothing stored, or one value
None == <<>>

Some(v) == <<v>>

\* the b-token contract before initialize, no address collateralized
NoToken ==
    /\ token_storage = [pool |-> None, decimals |-> None, name |-> None,
                        symbol |-> None, asset |-> None,
                        balance |-> [a \in Addresses |-> 0],
                        allowance |-> [a \in Addresses |-> [b \in Addresses |-> 0]]]
    /\ collateralized = {}

NoEmissions ==
    /\ timestamp = 0
    /\ pool_emis_config = [last_time |-> 0, config |-> 0]
    /\ pool_emissions = [k \in {} |-> 0]
    /\ res_emis_config = [k \in {} |-> 0]
    /\ res_emis_data = [k \in {} |-> 0]

NoResult == [op |-> "none", key |-> <<0, "">>, status |-> "none", value |-> <<>>]

Outcome(op, key, status, value) ==
    [op |-> op, key |-> key, status |-> status, value |-> value]

\* storage::has_auction / set_auction / del_auction on a store
has_auction(store, auction_type, user) == <<auction_type, user>> \in DOMAIN store

set_auction(store, auction_type, user, auction_data) ==
    [k \in DOMAIN store \cup {<<auction_type, user>>} |->
        IF k = <<auction_type, user>> THEN auction_data ELSE store[k]]

del_auction(store, auction_type, user) ==
    [k \in DOMAIN store \ {<<auction_type, user>>} |-> store[k]]

\* storage::get_backstop
get_backstop == Backstop

\* ------------------------------------------------------------------------
\* Reserve conversions and position valuation
\* ------------------------------------------------------------------------

to_asset_from_b_token(i, b_tokens) ==
    fixed_mul_floor(b_tokens, reserve_config[i].b_rate, SCALAR_9)

to_effective_asset_from_b_token(i, b_tokens) ==
    fixed_mul_floor(to_asset_from_b_token(i, b_tokens), reserve_config[i].c_factor, SCALAR_7)

to_asset_from_d_token_Floor(i, d_tokens) ==
    fixed_mul_floor(d_tokens, reserve_config[i].d_rate, SCALAR_9)

to_asset_from_d_token(i, d_tokens) ==
    fixed_mul_ceil(d_tokens, reserve_config[i].d_rate, SCALAR_9)

to_effective_asset_from_d_token(i, d_tokens) ==
    fixed_div_ceil(to_asset_from_d_token(i, d_tokens), reserve_config[i].l_factor, SCALAR_7)

RECURSIVE SumOver(_, _)
SumOver(f, S) ==
    IF S = {} THEN 0
    ELSE LET i == CHOOSE x \in S : TRUE
         IN  f[i] + SumOver(f, S \ {i})

\* PositionData::calculate_from_positions: (collateral_base, liability_base)
calculate_from_positions(pos, oracle) ==
    [collateral_base |->
        SumOver([i \in ReserveIdx |->
                    fixed_mul_floor(to_effective_asset_from_b_token(i, pos.collateral[i]),
                                    oracle[i], SCALAR_7)], ReserveIdx),
     liability_base |->
        SumOver([i \in ReserveIdx |->
                    fixed_mul_floor(to_effective_asset_from_d_token(i, pos.liabilities[i]),
                                    oracle[i], SCALAR_7)], ReserveIdx)]

\* PositionData::require_healthy passes
is_healthy(position_data) ==
    position_data.collateral_base > position_data.liability_base

\* eligibility for liquidation
is_unhealthy(position_data) ==
    position_data.liability_base > position_data.collateral_base

\* ------------------------------------------------------------------------
\* Position valuation through the usage bitmask (user_data.rs).  A user's
\* config packs three bits per reserve index: bit 3i is the liability bit and
\* bit 3i + 1 the supply (collateral) bit; bit 3i + 2 is clear in every config
\* the pool's code is seen to write and is left clear here.
\* ------------------------------------------------------------------------

liability_key(res_index) == res_index * 3

supply_key(res_index) == res_index * 3 + 1

is_liability(config, res_index) == (config \div 2 ^ liability_key(res_index)) % 2 = 1

is_supply(config, res_index) == (config \div 2 ^ supply_key(res_index)) % 2 = 1

is_collateral(config, res_index) == is_supply(config, res_index)

is_active_reserve(config, res_index) ==
    is_liability(config, res_index) \/ is_supply(config, res_index)

\* reserve i's share of collateral_base for b_tokens
collateral_to_base(i, b_tokens, oracle) ==
    fixed_mul_floor(to_effective_asset_from_b_token(i, b_tokens), oracle[i], SCALAR_7)

\* reserve i's share of liability_base for d_tokens
liability_to_base(i, d_tokens, oracle) ==
    fixed_mul_floor(to_effective_asset_from_d_token(i, d_tokens), oracle[i], SCALAR_7)

\* a price the oracle does not have
MissingPrice == -1

visited_All(config, action) == ReserveIdx

\* the reserves UserData::load loads and asks the oracle a price for
visited(config, action) ==
    {i \in ReserveIdx : is_active_reserve(config, i) \/ i = action.asset}

load_IgnoresUsage(config, balance, oracle, action) ==
    LET visit(i) ==
            [collateral |->
                collateral_to_base(i, balance.collateral[i], oracle)
                + (IF i = action.asset /\ action.b_token_delta # 0
                   THEN collateral_to_base(i, action.b_token_delta, oracle) ELSE 0),
             liability |->
                liability_to_base(i, balance.liabilities[i], oracle)
                + (IF i = action.asset /\ action.d_token_delta # 0
                   THEN liability_to_base(i, action.d_token_delta, oracle) ELSE 0)]
    IN  [collateral_base |-> SumOver([i \in ReserveIdx |-> visit(i).collateral], ReserveIdx),
         liability_base |-> SumOver([i \in ReserveIdx |-> visit(i).liability], ReserveIdx)]

load_AnyBitCounts(config, balance, oracle, action) ==
    LET visit(i) ==
            [collateral |->
                (IF is_active_reserve(config, i)
                 THEN collateral_to_base(i, balance.collateral[i], oracle) ELSE 0)
                + (IF i = action.asset /\ action.b_token_delta # 0
                   THEN collateral_to_base(i, action.b_token_delta, oracle) ELSE 0),
             liability |->
                (IF is_active_reserve(config, i)
                 THEN liability_to_base(i, balance.liabilities[i], oracle) ELSE 0)
                + (IF i = action.asset /\ action.d_token_delta # 0
                   THEN liability_to_base(i, action.d_token_delta, oracle) ELSE 0)]
    IN  [collateral_base |-> SumOver([i \in ReserveIdx |-> visit(i).collateral], ReserveIdx),
         liability_base |-> SumOver([i \in ReserveIdx |-> visit(i).liability], ReserveIdx)]

load_DeltaIfActive(config, balance, oracle, action) ==
    LET skipped == [collateral |-> 0, liability |-> 0]
        visit(i) ==
            IF ~is_active_reserve(config, i) THEN skipped
            ELSE [collateral |->
                    (IF is_collateral(config, i)
                     THEN collateral_to_base(i, balance.collateral[i], oracle) ELSE 0)
                    + (IF i = action.asset /\ action.b_token_delta # 0
                       THEN collateral_to_base(i, action.b_token_delta, oracle) ELSE 0),
                  liability |->
                    (IF is_liability(config, i)
                     THEN liability_to_base(i, balance.liabilities[i], oracle) ELSE 0)
                    + (IF i = action.asset /\ action.d_token_delta # 0
                       THEN liability_to_base(i, action.d_token_delta, oracle) ELSE 0)]
    IN  [collateral_base |-> SumOver([i \in ReserveIdx |-> visit(i).collateral], ReserveIdx),
         liability_base |-> SumOver([i \in ReserveIdx |-> visit(i).liability], ReserveIdx)]

load_LastReserveOnly(config, balance, oracle, action) ==
    LET last == CHOOSE i \in visited(config, action) :
                    \A j \in visited(config, action) : j <= i
    IN  IF visited(config, action) = {}
        THEN [collateral_base |-> 0, liability_base |-> 0]
        ELSE [collateral_base |->
                (IF is_collateral(config, last)
                 THEN collateral_to_base(last, balance.collateral[last], oracle) ELSE 0)
                + (IF last = action.asset /\ action.b_token_delta # 0
                   THEN collateral_to_base(last, action.b_token_delta, oracle) ELSE 0),
              liability_base |->
                (IF is_liability(config, last)
                 THEN liability_to_base(last, balance.liabilities[last], oracle) ELSE 0)
                + (IF last = action.asset /\ action.d_token_delta # 0
                   THEN liability_to_base(last, action.d_token_delta, oracle) ELSE 0)]

\* UserData::load: (collateral_base, liability_base) of the b-token and d-token
\* balances under the user's config, with the deltas of action on its asset
load(config, balance, oracle, action) ==
    LET skipped == [collateral |-> 0, liability |-> 0]
        visit(i) ==
            IF i \notin visited(config, action) THEN skipped
            ELSE [collateral |->
                    (IF is_collateral(config, i)
                     THEN collateral_to_base(i, balance.collateral[i], oracle) ELSE 0)
                    + (IF i = action.asset /\ action.b_token_delta # 0
                       THEN collateral_to_base(i, action.b_token_delta, oracle) ELSE 0),
                  liability |->
                    (IF is_liability(config, i)
                     THEN liability_to_base(i, balance.liabilities[i], oracle) ELSE 0)
                    + (IF i = action.asset /\ action.d_token_delta # 0
                       THEN liability_to_base(i, action.d_token_delta, oracle) ELSE 0)]
    IN  [collateral_base |-> SumOver([i \in ReserveIdx |-> visit(i).collateral], ReserveIdx),
         liability_base |-> SumOver([i \in ReserveIdx |-> visit(i).liability], ReserveIdx)]

\* ------------------------------------------------------------------------
\* Settlement steps of one invocation.  A context carries the writes of the
\* invocation; the host keeps them only when the invocation ends with ok.
\* ------------------------------------------------------------------------

CurrentCtx ==
    [ok |-> TRUE, err |-> "", positions |-> positions, d_supply |-> d_supply,
     bstop_credit |-> bstop_credit, balances |-> balances,
     allowances |-> allowances, bstop_balances |-> bstop_balances,
     emissions |-> <<>>]

Abort(ctx, err) == [ctx EXCEPT !.ok = FALSE, !.err = err]

\* TokenClient::transfer_from(spender = pool, from, to, amount) of reserve i's underlying
transfer_from(ctx, i, from, to, amount) ==
    IF ~ctx.ok THEN ctx
    ELSE IF ctx.allowances[i][from] < amount THEN Abort(ctx, "InsufficientAllowance")
    ELSE IF ctx.balances[i][from] < amount THEN Abort(ctx, "InsufficientBalance")
    ELSE [ctx EXCEPT !.allowances[i][from] = @ - amount,
                     !.balances[i][from] = @ - amount,
                     !.balances[i][to] = @ + amount]

\* TokenClient::transfer(from, to, amount) of reserve i's underlying
transfer(ctx, i, from, to, amount) ==
    IF ~ctx.ok THEN ctx
    ELSE IF ctx.balances[i][from] < amount THEN Abort(ctx, "InsufficientBalance")
    ELSE [ctx EXCEPT !.balances[i][from] = @ - amount,
                     !.balances[i][to] = @ + amount]

\* transfer of backstop tokens
bstop_transfer(ctx, from, to, amount) ==
    IF ~ctx.ok THEN ctx
    ELSE IF ctx.bstop_balances[from] < amount THEN Abort(ctx, "InsufficientBalance")
    ELSE [ctx EXCEPT !.bstop_balances[from] = @ - amount,
                     !.bstop_balances[to] = @ + amount]

\* Positions::remove_liabilities
remove_liabilities(ctx, user, i, amount) ==
    IF ~ctx.ok THEN ctx
    ELSE IF ctx.positions[user].liabilities[i] < amount THEN Abort(ctx, "BadRequest")
    ELSE [ctx EXCEPT !.positions[user].liabilities[i] = @ - amount]

\* move collateral shares of reserve i from user to filler
move_collateral(ctx, user, filler, i, amount) ==
    IF ~ctx.ok THEN ctx
    ELSE IF ctx.positions[user].collateral[i] < amount THEN Abort(ctx, "BadRequest")
    ELSE [ctx EXCEPT !.positions[user].collateral[i] = @ - amount,
                     !.positions[filler].collateral[i] = @ + amount]

\* emissions::update_emissions as the caller sees it: the call and its
\* arguments are added to the calls of the invocation
report_emissions(ctx, res_token_id, supply, user, balance) ==
    [ctx EXCEPT !.emissions =
        Append(@, [res_token_id |-> res_token_id, supply |-> supply,
                   user |-> user, balance |-> balance])]

fill_debt_token_ReportsAfter(ctx, user, spender, asset, debt_token_amount) ==
    IF ~ctx.ok THEN ctx
    ELSE LET underlying_amount == to_asset_from_d_token(asset, debt_token_amount)
             c1 == [ctx EXCEPT !.d_supply[asset] = @ - debt_token_amount]
             c2 == remove_liabilities(c1, user, asset, debt_token_amount)
             c3 == IF ~c2.ok THEN c2
                   ELSE report_emissions(c2, asset * 2, c2.d_supply[asset], user,
                                         c2.positions[user].liabilities[asset])
         IN  transfer_from(c3, asset, spender, PoolAddress, underlying_amount)

fill_debt_token_SupplyByUnderlying(ctx, user, spender, asset, debt_token_amount) ==
    IF ~ctx.ok THEN ctx
    ELSE LET c0 == report_emissions(ctx, asset * 2, ctx.d_supply[asset], user,
                                    ctx.positions[user].liabilities[asset])
             underlying_amount == to_asset_from_d_token(asset, debt_token_amount)
             c1 == [c0 EXCEPT !.d_supply[asset] = @ - underlying_amount]
             c2 == remove_liabilities(c1, user, asset, debt_token_amount)
         IN  transfer_from(c2, asset, spender, PoolAddress, underlying_amount)

\* fill_debt_token: repay debt_token_amount d-tokens of user from spender
fill_debt_token(ctx, user, spender, asset, debt_token_amount) ==
    IF ~ctx.ok THEN ctx
    ELSE LET c0 == report_emissions(ctx, asset * 2, ctx.d_supply[asset], user,
                                    ctx.positions[user].liabilities[asset])
             underlying_amount == to_asset_from_d_token(asset, debt_token_amount)
             c1 == [c0 EXCEPT !.d_supply[asset] = @ - debt_token_amount]
             c2 == remove_liabilities(c1, user, asset, debt_token_amount)
         IN  transfer_from(c2, asset, spender, PoolAddress, underlying_amount)

KeyOrder == <<0, 1, 2>>

RECURSIVE fill_bids(_, _, _, _, _, _)
\* settle the bid entries KeyOrder[n], KeyOrder[n + 1], ... of an auction
fill_bids(ctx, bid, user, filler, bid_mod, n) ==
    IF n > Len(KeyOrder) THEN ctx
    ELSE LET k == KeyOrder[n]
             amount_mod == fixed_mul_floor(bid[k], bid_mod, SCALAR_7)
             next == IF k \notin DOMAIN bid THEN ctx
                     ELSE IF k = BACKSTOP_TOKEN_KEY
                     THEN bstop_transfer(ctx, filler, Backstop, amount_mod)
                     ELSE fill_debt_token(ctx, user, filler, k, amount_mod)
         IN  fill_bids(next, bid, user, filler, bid_mod, n + 1)

RECURSIVE fill_lots(_, _, _, _, _, _, _)
\* settle the lot entries KeyOrder[n], KeyOrder[n + 1], ... of an auction
fill_lots(ctx, auction_type, lot, user, filler, lot_mod, n) ==
    IF n > Len(KeyOrder) THEN ctx
    ELSE LET k == KeyOrder[n]
             amount_mod == fixed_mul_floor(lot[k], lot_mod, SCALAR_7)
             credited == IF ctx.ok /\ ctx.bstop_credit[k] >= amount_mod
                         THEN [ctx EXCEPT !.bstop_credit[k] = @ - amount_mod]
                         ELSE Abort(ctx, "BadRequest")
             next == IF k \notin DOMAIN lot THEN ctx
                     ELSE IF k = BACKSTOP_TOKEN_KEY
                     THEN bstop_transfer(ctx, Backstop, filler, amount_mod)
                     ELSE IF auction_type = UserLiquidation
                     THEN move_collateral(ctx, user, filler, k, amount_mod)
                     ELSE transfer(credited, k, PoolAddress, filler, amount_mod)
         IN  fill_lots(next, auction_type, lot, user, filler, lot_mod, n + 1)

\* the (bid, lot, block) view of an auction under the modifiers
quote_of(auction_type, auction_data, mods) ==
    [bid |-> [k \in DOMAIN auction_data.bid |->
                LET amount_mod == fixed_mul_floor(auction_data.bid[k], mods[1], SCALAR_7)
                IN  IF k = BACKSTOP_TOKEN_KEY THEN amount_mod
                    ELSE to_asset_from_d_token(k, amount_mod)],
     lot |-> [k \in DOMAIN auction_data.lot |->
                fixed_mul_floor(auction_data.lot[k], mods[2], SCALAR_7)],
     block |-> auction_data.block]

\* fill_user_liq_auction / fill_bad_debt_auction / fill_interest_auction
fill_auction(ctx, auction_type, auction_data, user, filler, seq) ==
    LET mods == get_fill_modifiers(seq, auction_data)
        paid == fill_bids(ctx, auction_data.bid, user, filler, mods[1], 1)
    IN  fill_lots(paid, auction_type, auction_data.lot, user, filler, mods[2], 1)

\* ------------------------------------------------------------------------
\* Auction data of a new auction
\* ------------------------------------------------------------------------

\* compositions a liquidator names: collateral of reserve 0 against debt of reserve 1
LiqChoices ==
    {[collateral |-> (0 :> c), liability |-> (1 :> 3)] : c \in {2, 4}}

within(named, held) == \A k \in DOMAIN named : k \in ReserveIdx /\ named[k] <= held[k]

create_user_liq_auction_data(user, liq_data) ==
    LET position_data == calculate_from_positions(positions[user], prices)
    IN  IF has_auction(auctions, UserLiquidation, user)
        THEN [ok |-> FALSE, err |-> "BadRequest", data |-> <<>>]
        ELSE IF ~is_unhealthy(position_data)
        THEN [ok |-> FALSE, err |-> "BadRequest", data |-> <<>>]
        ELSE IF ~(/\ within(liq_data.collateral, positions[user].collateral)
                  /\ within(liq_data.liability, positions[user].liabilities))
        THEN [ok |-> FALSE, err |-> "BadRequest", data |-> <<>>]
        ELSE [ok |-> TRUE, err |-> "",
              data |-> [bid |-> liq_data.liability, lot |-> liq_data.collateral,
                        block |-> sequence]]

nonzero(f) == [k \in {i \in DOMAIN f : f[i] > 0} |-> f[k]]

create_bad_debt_auction_data(backstop) ==
    LET debt == nonzero(positions[backstop].liabilities)
    IN  IF has_auction(auctions, BadDebtAuction, backstop)
        THEN [ok |-> FALSE, err |-> "BadRequest", data |-> <<>>]
        ELSE IF DOMAIN debt = {}
        THEN [ok |-> FALSE, err |-> "BadRequest", data |-> <<>>]
        ELSE [ok |-> TRUE, err |-> "",
              data |-> [bid |-> debt,
                        lot |-> (BACKSTOP_TOKEN_KEY :> SumOver(debt, DOMAIN debt)),
                        block |-> sequence]]

create_interest_auction_data(backstop) ==
    LET interest == nonzero(bstop_credit)
    IN  IF has_auction(auctions, InterestAuction, backstop)
        THEN [ok |-> FALSE, err |-> "BadRequest", data |-> <<>>]
        ELSE IF DOMAIN interest = {}
        THEN [ok |-> FALSE, err |-> "BadRequest", data |-> <<>>]
        ELSE [ok |-> TRUE, err |-> "",
              data |-> [bid |-> (BACKSTOP_TOKEN_KEY :> SumOver(interest, DOMAIN interest)),
                        lot |-> interest,
                        block |-> sequence]]

\* ------------------------------------------------------------------------
\* Invocations.  A failed invocation leaves nothing but its error.
\* ------------------------------------------------------------------------

Fail(op, key, err) ==
    /\ result' = Outcome(op, key, err, <<>>)
    /\ UNCHANGED <<sequence, auctions, positions, d_supply, bstop_credit, prices,
                   balances, allowances, bstop_balances, reserve_state, emission_state,
                   token_state>>

Store(op, key, auction_data) ==
    /\ auctions' = set_auction(auctions, key[1], key[2], auction_data)
    /\ result' = Outcome(op, key, "Ok", auction_data)
    /\ UNCHANGED <<sequence, positions, d_supply, bstop_credit, prices,
                   balances, allowances, bstop_balances, reserve_state, emission_state,
                   token_state>>

\* new auctions are asked for in the first MaxCreateSteps ledger steps
CreateWindow == sequence <= MaxCreateSteps * LedgerStep

create_LiquidationArm(auction_type) ==
    /\ CreateWindow
    /\ LET backstop == get_backstop
           key == <<auction_type, backstop>>
           made == IF auction_type = InterestAuction
                   THEN create_interest_auction_data(backstop)
                   ELSE create_bad_debt_auction_data(backstop)
       IN  IF auction_type \notin {UserLiquidation, BadDebtAuction, InterestAuction}
           THEN Fail("create", key, "Panic")
           ELSE IF ~made.ok THEN Fail("create", key, made.err)
           ELSE Store("create", key, made.data)

create_NextBlock(auction_type) ==
    /\ CreateWindow
    /\ LET backstop == get_backstop
           key == <<auction_type, backstop>>
           made == IF auction_type = BadDebtAuction
                   THEN create_bad_debt_auction_data(backstop)
                   ELSE create_interest_auction_data(backstop)
       IN  IF auction_type \notin {UserLiquidation, BadDebtAuction, InterestAuction}
           THEN Fail("create", key, "Panic")
           ELSE IF auction_type = UserLiquidation
           THEN Fail("create", key, "BadRequest")
           ELSE IF ~made.ok THEN Fail("create", key, made.err)
           ELSE Store("create", key, [made.data EXCEPT !.block = sequence + 1])

create_StoresUnderPool(auction_type) ==
    /\ CreateWindow
    /\ LET backstop == get_backstop
           key == <<auction_type, PoolAddress>>
           made == IF auction_type = BadDebtAuction
                   THEN create_bad_debt_auction_data(backstop)
                   ELSE create_interest_auction_data(backstop)
       IN  IF auction_type \notin {UserLiquidation, BadDebtAuction, InterestAuction}
           THEN Fail("create", key, "Panic")
           ELSE IF auction_type = UserLiquidation
           THEN Fail("create", key, "BadRequest")
           ELSE IF ~made.ok THEN Fail("create", key, made.err)
           ELSE Store("create", key, made.data)

create(auction_type) ==
    /\ CreateWindow
    /\ LET backstop == get_backstop
           key == <<auction_type, backstop>>
           made == IF auction_type = BadDebtAuction
                   THEN create_bad_debt_auction_data(backstop)
                   ELSE create_interest_auction_data(backstop)
       IN  IF auction_type \notin {UserLiquidation, BadDebtAuction, InterestAuction}
           THEN Fail("create", key, "Panic")
           ELSE IF auction_type = UserLiquidation
           THEN Fail("create", key, "BadRequest")
           ELSE IF ~made.ok THEN Fail("create", key, made.err)
           ELSE Store("create", key, made.data)

create_liquidation_IgnoresError(user, liq_data) ==
    /\ CreateWindow
    /\ Store("create_liquidation", <<UserLiquidation, user>>,
             [bid |-> liq_data.liability, lot |-> liq_data.collateral,
              block |-> sequence])

create_liquidation(user, liq_data) ==
    /\ CreateWindow
    /\ LET key == <<UserLiquidation, user>>
           made == create_user_liq_auction_data(user, liq_data)
       IN  IF ~made.ok THEN Fail("create_liquidation", key, made.err)
           ELSE Store("create_liquidation", key, made.data)

delete_liquidation_NoHealthCheck(user) ==
    LET key == <<UserLiquidation, user>>
    IN  IF ~has_auction(auctions, UserLiquidation, user)
        THEN Fail("delete_liquidation", key, "BadRequest")
        ELSE /\ auctions' = del_auction(auctions, UserLiquidation, user)
             /\ result' = Outcome("delete_liquidation", key, "Ok", <<>>)
             /\ UNCHANGED <<sequence, positions, d_supply, bstop_credit, prices,
                            balances, allowances, bstop_balances, reserve_state, emission_state,
                            token_state>>

delete_liquidation_HealthFirst(user) ==
    LET key == <<UserLiquidation, user>>
        position_data == calculate_from_positions(positions[user], prices)
    IN  IF ~is_healthy(position_data)
        THEN Fail("delete_liquidation", key, "InvalidHf")
        ELSE IF ~has_auction(auctions, UserLiquidation, user)
        THEN Fail("delete_liquidation", key, "BadRequest")
        ELSE /\ auctions' = del_auction(auctions, UserLiquidation, user)
             /\ result' = Outcome("delete_liquidation", key, "Ok", <<>>)
             /\ UNCHANGED <<sequence, positions, d_supply, bstop_credit, prices,
                            balances, allowances, bstop_balances, reserve_state, emission_state,
                            token_state>>

delete_liquidation_DeletesFirst(user) ==
    LET key == <<UserLiquidation, user>>
        position_data == calculate_from_positions(positions[user], prices)
    IN  IF ~has_auction(auctions, UserLiquidation, user)
        THEN Fail("delete_liquidation", key, "BadRequest")
        ELSE /\ auctions' = del_auction(auctions, UserLiquidation, user)
             /\ result' = Outcome("delete_liquidation", key,
                                  IF is_healthy(position_data) THEN "Ok" ELSE "InvalidHf",
                                  <<>>)
             /\ UNCHANGED <<sequence, positions, d_supply, bstop_credit, prices,
                            balances, allowances, bstop_balances, reserve_state, emission_state,
                            token_state>>

delete_liquidation(user) ==
    LET key == <<UserLiquidation, user>>
        position_data == calculate_from_positions(positions[user], prices)
    IN  IF ~has_auction(auctions, UserLiquidation, user)
        THEN Fail("delete_liquidation", key, "BadRequest")
        ELSE IF ~is_healthy(position_data)
        THEN Fail("delete_liquidation", key, "InvalidHf")
        ELSE /\ auctions' = del_auction(auctions, UserLiquidation, user)
             /\ result' = Outcome("delete_liquidation", key, "Ok", <<>>)
             /\ UNCHANGED <<sequence, positions, d_supply, bstop_credit, prices,
                            balances, allowances, bstop_balances, reserve_state, emission_state,
                            token_state>>

\* the writes of a fill are kept; its outcome is the quote it returns together
\* with the emission updates it called for
Settle(op, key, filler, ctx, store, quote) ==
    /\ auctions' = store
    /\ positions' = ctx.positions
    /\ d_supply' = ctx.d_supply
    /\ bstop_credit' = ctx.bstop_credit
    /\ balances' = ctx.balances
    /\ allowances' = ctx.allowances
    /\ bstop_balances' = ctx.bstop_balances
    /\ result' = Outcome(op, key, "Ok", quote @@ [emissions |-> ctx.emissions])
    /\ UNCHANGED <<sequence, prices, reserve_state, emission_state, token_state>>

fill_KeepsRecord(auction_type, user, filler) ==
    LET key == <<auction_type, user>>
    IN  IF ~has_auction(auctions, auction_type, user)
        THEN Fail("fill", key, "BadRequest")
        ELSE LET auction_data == auctions[key]
                 ctx == fill_auction(CurrentCtx, auction_type, auction_data,
                                     user, filler, sequence)
                 quote == quote_of(auction_type, auction_data,
                                   get_fill_modifiers(sequence, auction_data))
             IN  IF ~ctx.ok THEN Fail("fill", key, ctx.err)
                 ELSE Settle("fill", key, filler, ctx, auctions, quote)

fill_DefaultAuction(auction_type, user, filler) ==
    LET key == <<auction_type, user>>
        auction_data == IF has_auction(auctions, auction_type, user)
                        THEN auctions[key]
                        ELSE [bid |-> EmptyMap, lot |-> EmptyMap, block |-> sequence]
        ctx == fill_auction(CurrentCtx, auction_type, auction_data, user, filler, sequence)
        quote == quote_of(auction_type, auction_data,
                          get_fill_modifiers(sequence, auction_data))
    IN  IF ~ctx.ok THEN Fail("fill", key, ctx.err)
        ELSE Settle("fill", key, filler, ctx,
                    del_auction(auctions, auction_type, user), quote)

fill_PartialCommit(auction_type, user, filler) ==
    LET key == <<auction_type, user>>
    IN  IF ~has_auction(auctions, auction_type, user)
        THEN Fail("fill", key, "BadRequest")
        ELSE LET auction_data == auctions[key]
                 ctx == fill_auction(CurrentCtx, auction_type, auction_data,
                                     user, filler, sequence)
                 quote == quote_of(auction_type, auction_data,
                                   get_fill_modifiers(sequence, auction_data))
             IN  IF ~ctx.ok
                 THEN /\ positions' = ctx.positions
                      /\ d_supply' = ctx.d_supply
                      /\ bstop_credit' = ctx.bstop_credit
                      /\ balances' = ctx.balances
                      /\ allowances' = ctx.allowances
                      /\ bstop_balances' = ctx.bstop_balances
                      /\ result' = Outcome("fill", key, ctx.err, <<>>)
                      /\ UNCHANGED <<sequence, auctions, prices, reserve_state,
                                     emission_state, token_state>>
                 ELSE Settle("fill", key, filler, ctx,
                             del_auction(auctions, auction_type, user), quote)

fill(auction_type, user, filler) ==
    LET key == <<auction_type, user>>
    IN  IF ~has_auction(auctions, auction_type, user)
        THEN Fail("fill", key, "BadRequest")
        ELSE LET auction_data == auctions[key]
                 ctx == fill_auction(CurrentCtx, auction_type, auction_data,
                                     user, filler, sequence)
                 quote == quote_of(auction_type, auction_data,
                                   get_fill_modifiers(sequence, auction_data))
             IN  IF ~ctx.ok THEN Fail("fill", key, ctx.err)
                 ELSE Settle("fill", key, filler, ctx,
                             del_auction(auctions, auction_type, user), quote)

preview_fill_Consumes(auction_type, user) ==
    LET key == <<auction_type, user>>
    IN  IF ~has_auction(auctions, auction_type, user)
        THEN Fail("preview_fill", key, "BadRequest")
        ELSE /\ auctions' = del_auction(auctions, auction_type, user)
             /\ result' = Outcome("preview_fill", key, "Ok",
                                  quote_of(auction_type, auctions[key],
                                           get_fill_modifiers(sequence, auctions[key])))
             /\ UNCHANGED <<sequence, positions, d_supply, bstop_credit, prices,
                            balances, allowances, bstop_balances, reserve_state, emission_state,
                            token_state>>

\* preview_fill: the quote a fill at this ledger sequence would settle
preview_fill(auction_type, user) ==
    LET key == <<auction_type, user>>
    IN  IF ~has_auction(auctions, auction_type, user)
        THEN Fail("preview_fill", key, "BadRequest")
        ELSE /\ result' = Outcome("preview_fill", key, "Ok",
                                  quote_of(auction_type, auctions[key],
                                           get_fill_modifiers(sequence, auctions[key])))
             /\ UNCHANGED <<sequence, auctions, positions, d_supply, bstop_credit,
                            prices, balances, allowances, bstop_balances, reserve_state, emission_state,
                            token_state>>

\* the ledger closes LedgerStep blocks
AdvanceLedger ==
    /\ sequence < MaxLedgerSteps * LedgerStep
    /\ sequence' = sequence + LedgerStep
    /\ result' = NoResult
    /\ UNCHANGED <<auctions, positions, d_supply, bstop_credit, prices,
                   balances, allowances, bstop_balances, reserve_state, emission_state,
                   token_state>>

\* the oracle reports a new price for reserve 0
SetPrice(p) ==
    /\ prices[0] # p
    /\ prices' = [prices EXCEPT ![0] = p]
    /\ result' = NoResult
    /\ UNCHANGED <<sequence, auctions, positions, d_supply, bstop_credit,
                   balances, allowances, bstop_balances, reserve_state, emission_state,
                   token_state>>

NoPositions == [collateral |-> [i \in ReserveIdx |-> 0],
                liabilities |-> [i \in ReserveIdx |-> 0]]

\* pools the engine starts from: which eligibility conditions are met
PoolStates ==
    {[liquidatable |-> TRUE,  bad_debt |-> FALSE, interest |-> FALSE],
     [liquidatable |-> FALSE, bad_debt |-> TRUE,  interest |-> FALSE],
     [liquidatable |-> FALSE, bad_debt |-> FALSE, interest |-> TRUE],
     [liquidatable |-> TRUE,  bad_debt |-> TRUE,  interest |-> FALSE]}

Init ==
    /\ sequence = 0
    /\ reserve_config = setup_reserve
    /\ b_supply = [i \in ReserveIdx |-> MaxFunds]
    /\ pool_status = 0
    /\ NoEmissions
    /\ NoToken
    /\ auctions = EmptyMap
    /\ \E pool \in PoolStates :
          /\ positions = [a \in Addresses |->
                            IF a = Samwise /\ pool.liquidatable
                            THEN [collateral |-> (0 :> 4) @@ (1 :> 0),
                                  liabilities |-> (0 :> 0) @@ (1 :> 3)]
                            ELSE IF a = Backstop /\ pool.bad_debt
                            THEN [collateral |-> (0 :> 0) @@ (1 :> 0),
                                  liabilities |-> (0 :> 0) @@ (1 :> 2)]
                            ELSE NoPositions]
          /\ d_supply = (0 :> 0) @@ (1 :> 5)
          /\ bstop_credit = (0 :> 0) @@ (1 :> IF pool.interest THEN 2 ELSE 0)
    /\ prices \in {(0 :> p) @@ (1 :> SCALAR_7) : p \in PriceChoices}
    /\ \E funds \in {0, MaxFunds} :
          /\ balances = [i \in ReserveIdx |->
                           [x \in Addresses |->
                              IF x = PoolAddress THEN MaxFunds
                              ELSE IF x = Frodo THEN funds ELSE 0]]
          /\ allowances = [i \in ReserveIdx |->
                             [x \in Addresses |-> IF x = Frodo THEN MaxFunds ELSE 0]]
          /\ bstop_balances = [x \in Addresses |->
                                 IF x = Backstop THEN MaxFunds
                                 ELSE IF x = Frodo THEN funds ELSE 0]
    /\ result = NoResult

\* keys fill and preview_fill are called with: the keys the pool stores under
\* (with or without a record at the call) and a key of no auction type
CalledKeys ==
    {<<UserLiquidation, Samwise>>, <<BadDebtAuction, Backstop>>,
     <<InterestAuction, Backstop>>, <<3, Backstop>>}

Next ==
    \/ AdvanceLedger
    \/ \E p \in PriceChoices : SetPrice(p)
    \/ \E t \in AuctionTypeCodes : create(t)
    \/ \E u \in Users, l \in LiqChoices : create_liquidation(u, l)
    \/ \E u \in Subjects : delete_liquidation(u)
    \/ \E key \in CalledKeys, f \in Fillers : fill(key[1], key[2], f)
    \/ \E key \in CalledKeys : preview_fill(key[1], key[2])

Spec == Init /\ [][Next]_vars

\* the ledger keeps closing
LiveSpec == Spec /\ WF_vars(AdvanceLedger)

\* ------------------------------------------------------------------------
\* The decay curve of one auction, block by block
\* ------------------------------------------------------------------------

CurveKey == <<UserLiquidation, Samwise>>

CurveElapsed == sequence - auctions[CurveKey].block

CurveInit ==
    /\ sequence \in 0 .. MaxCurveBlock
    /\ reserve_config = setup_reserve
    /\ b_supply = [i \in ReserveIdx |-> MaxFunds]
    /\ pool_status = 0
    /\ NoEmissions
    /\ NoToken
    /\ auctions = (CurveKey :> [bid |-> EmptyMap, lot |-> EmptyMap, block |-> sequence])
    /\ positions = [a \in Addresses |-> NoPositions]
    /\ d_supply = [i \in ReserveIdx |-> 0]
    /\ bstop_credit = [i \in ReserveIdx |-> 0]
    /\ prices = [i \in ReserveIdx |-> SCALAR_7]
    /\ balances = [i \in ReserveIdx |-> [x \in Addresses |-> 0]]
    /\ allowances = [i \in ReserveIdx |-> [x \in Addresses |-> 0]]
    /\ bstop_balances = [x \in Addresses |-> 0]
    /\ result = Outcome("get_fill_modifiers", CurveKey, "Ok",
                        get_fill_modifiers(sequence, auctions[CurveKey]))

\* the ledger closes one block and the modifiers are read again
CurveStep ==
    /\ CurveElapsed < MaxElapsed
    /\ sequence' = sequence + 1
    /\ result' = Outcome("get_fill_modifiers", CurveKey, "Ok",
                         get_fill_modifiers(sequence', auctions[CurveKey]))
    /\ UNCHANGED <<auctions, positions, d_supply, bstop_credit, prices,
                   balances, allowances, bstop_balances, reserve_state, emission_state,
                   token_state>>

CurveNext == CurveStep

CurveSpec == CurveInit /\ [][CurveNext]_vars

\* ------------------------------------------------------------------------
\* Position valuation as a function of config, balances, prices and action
\* ------------------------------------------------------------------------

\* configs over the liability and supply bits of the reserves
UserConfigs ==
    {SumOver([k \in bits |-> 2 ^ k], bits) :
        bits \in SUBSET UNION {{liability_key(i), supply_key(i)} : i \in ReserveIdx}}

\* an asset that is not in the reserve list
UnlistedAsset == 2

\* actions a valuation is asked for; no delta at all is one of them
UserActions ==
    [asset : ReserveIdx \cup {UnlistedAsset}, b_token_delta : {0, 2},
     d_token_delta : {-1, 0, 1}]

\* the reserves of test_load_user_only_liability and test_load_user_all_positions
test_reserves ==
    (0 :> [c_factor |-> 7500000, l_factor |-> 5500000,
           b_rate |-> 1000000000, d_rate |-> 1100000000])
    @@ (1 :> [c_factor |-> 7000000, l_factor |-> 6000000,
              b_rate |-> 1100000000, d_rate |-> 1200000000])

\* pools a valuation is drawn from.  The first kind holds 0 or MaxShares of
\* each token under setup_reserve, with reserve 1 priced, priced at zero or not
\* priced at all.  The second kind is the pool of the tests: 10 b-tokens and,
\* for the totals to stay within 32 bits, 1.2 d-tokens (a tenth of the tests'
\* 12) under test_reserves at prices 10 and 5.
LoadPools ==
    {[held |-> h, reserves |-> setup_reserve, oracle |-> (0 :> p0) @@ (1 :> p1)] :
        h \in [collateral : [ReserveIdx -> {0, MaxShares}],
               liabilities : [ReserveIdx -> {0, MaxShares}]],
        p0 \in PriceChoices, p1 \in {SCALAR_7, 0, MissingPrice}}
    \cup
    {[held |-> h, reserves |-> test_reserves,
      oracle |-> (0 :> 10 * SCALAR_7) @@ (1 :> 5 * SCALAR_7)] :
        h \in [collateral : [ReserveIdx -> {0, 10 * SCALAR_7}],
               liabilities : [ReserveIdx -> {0, 12000000}]]}

LoadInit ==
    /\ sequence = 0
    /\ b_supply = [i \in ReserveIdx |-> MaxFunds]
    /\ pool_status = 0
    /\ NoEmissions
    /\ NoToken
    /\ auctions = EmptyMap
    /\ \E pool \in LoadPools :
          /\ positions = [a \in Addresses |->
                            IF a = Samwise THEN pool.held ELSE NoPositions]
          /\ reserve_config = pool.reserves
          /\ prices = pool.oracle
    /\ d_supply = [i \in ReserveIdx |-> MaxShares]
    /\ bstop_credit = [i \in ReserveIdx |-> 0]
    /\ balances = [i \in ReserveIdx |-> [x \in Addresses |-> 0]]
    /\ allowances = [i \in ReserveIdx |-> [x \in Addresses |-> 0]]
    /\ bstop_balances = [x \in Addresses |-> 0]
    /\ result = NoResult

\* UserData::load(e, user, action) for a user whose stored config is config;
\* each drawn pool is valued once
LoadUser(user, config, action) ==
    /\ result = NoResult
    /\ result' = IF \E i \in visited(config, action) : prices[i] = MissingPrice
                 THEN Outcome("load", <<config, user>>, "OracleError",
                              [action |-> action])
                 ELSE Outcome("load", <<config, user>>, "Ok",
                              [totals |-> load(config, positions[user], prices, action),
                               action |-> action])
    /\ UNCHANGED ledger_state

LoadNext == \E config \in UserConfigs, action \in UserActions : LoadUser(Samwise, config, action)

LoadSpec == LoadInit /\ [][LoadNext]_vars

\* ------------------------------------------------------------------------
\* Properties of the decay curve (CurveSpec)
\* ------------------------------------------------------------------------

bid_modifier == result.value[1]

lot_modifier == result.value[2]

\* C1: 400 or more blocks after creation (exactly 400 included) the bid
\* modifier is 0 and the lot modifier is 1_0000000.
C1_FullyDecayed ==
    (result.op = "get_fill_modifiers" /\ CurveElapsed >= 400)
        => (bid_modifier = 0 /\ lot_modifier = SCALAR_7)

C1_Witness ==
    /\ result.op = "get_fill_modifiers"
    /\ CurveElapsed = 400
    /\ result.value = <<0, SCALAR_7>>

\* C2: for 200 < n <= 400 elapsed blocks the lot modifier is 1_0000000 and the
\* bid modifier is 2_0000000 - n * 0_0050000: 0_9950000 at 201, 0_5000000 at
\* 300 and 0 at 400.
C2_BidDecay ==
    (result.op = "get_fill_modifiers" /\ CurveElapsed > 200 /\ CurveElapsed <= 400)
        => /\ lot_modifier = SCALAR_7
           /\ bid_modifier = 2 * SCALAR_7 - CurveElapsed * 50000
           /\ CurveElapsed = 201 => bid_modifier = 9950000
           /\ CurveElapsed = 300 => bid_modifier = 5000000
           /\ CurveElapsed = 400 => bid_modifier = 0

C2_Witness ==
    /\ result.op = "get_fill_modifiers"
    /\ CurveElapsed = 201
    /\ result.value = <<9950000, SCALAR_7>>

\* C3: for 0 <= n <= 200 elapsed blocks the bid modifier is 1_0000000 and the
\* lot modifier is n * 0_0050000: 0 in the creation block, 0_5000000 at 100
\* and 1_0000000 at 200.
C3_LotGrowth ==
    (result.op = "get_fill_modifiers" /\ CurveElapsed >= 0 /\ CurveElapsed <= 200)
        => /\ bid_modifier = SCALAR_7
           /\ lot_modifier = CurveElapsed * 50000
           /\ CurveElapsed = 0 => lot_modifier = 0
           /\ CurveElapsed = 100 => lot_modifier = 5000000
           /\ CurveElapsed = 200 => lot_modifier = SCALAR_7

C3_Witness ==
    /\ result.op = "get_fill_modifiers"
    /\ CurveElapsed = 100
    /\ result.value = <<SCALAR_7, 5000000>>

C4_InRange ==
    /\ 0 <= bid_modifier /\ bid_modifier <= SCALAR_7
    /\ 0 <= lot_modifier /\ lot_modifier <= SCALAR_7
    /\ ~(lot_modifier < SCALAR_7 /\ bid_modifier < SCALAR_7)

C4_Step ==
    /\ result'.value[2] >= lot_modifier
    /\ result'.value[1] <= bid_modifier

\* C4: block by block the lot modifier never decreases and the bid modifier
\* never increases, both stay within [0, 1_0000000], and the bid modifier is
\* below 1_0000000 only when the lot modifier is 1_0000000.
C4_Monotone == [](C4_InRange) /\ [][C4_Step]_vars

C4_Witness ==
    /\ result.op = "get_fill_modifiers"
    /\ CurveElapsed = 300
    /\ bid_modifier < SCALAR_7
    /\ lot_modifier = SCALAR_7

\* ------------------------------------------------------------------------
\* Properties of the auction state machine (Spec, LiveSpec)
\* ------------------------------------------------------------------------

AuctionKeys == AuctionTypeCodes \X Subjects

\* the context of the invocation when filler holds and has approved nothing
PennilessCtx(filler) ==
    [CurrentCtx EXCEPT
        !.balances = [i \in ReserveIdx |-> [@[i] EXCEPT ![filler] = 0]],
        !.allowances = [i \in ReserveIdx |-> [@[i] EXCEPT ![filler] = 0]],
        !.bstop_balances = [@ EXCEPT ![filler] = 0]]

\* the auction under key asks no payment and a filler without funds can fill it
FreeToFill(key) ==
    /\ key \in DOMAIN auctions
    /\ get_fill_modifiers(sequence, auctions[key]) = <<0, SCALAR_7>>
    /\ \A k \in DOMAIN auctions[key].bid :
          quote_of(key[1], auctions[key],
                   get_fill_modifiers(sequence, auctions[key])).bid[k] = 0
    /\ \A f \in Fillers :
          fill_auction(PennilessCtx(f), key[1], auctions[key], key[2], f, sequence).ok

\* C5: while the ledger keeps closing, every stored auction is either removed
\* (filled or cancelled) or reaches a state in which its bid modifier is 0,
\* its lot modifier is full and a filler without balance or allowance can
\* fill it.
C5_EventuallyFillable ==
    \A key \in AuctionKeys :
        (key \in DOMAIN auctions) ~> (key \notin DOMAIN auctions \/ FreeToFill(key))

C5_Witness ==
    /\ result.op = "fill"
    /\ result.status = "Ok"
    /\ sequence - result.value.block >= 400
    /\ \A k \in DOMAIN result.value.bid : result.value.bid[k] = 0
    /\ \A i \in ReserveIdx : balances[i][Frodo] = 0
    /\ result.key \notin DOMAIN auctions

C6_Step ==
    /\ (result'.op = "fill" /\ result'.status = "Ok")
          => (result'.key \in DOMAIN auctions /\ result'.key \notin DOMAIN auctions')
    /\ \A key \in AuctionKeys :
          (key \notin DOMAIN auctions /\ key \in DOMAIN auctions')
             => /\ result'.op \in {"create", "create_liquidation"}
                /\ result'.status = "Ok"
                /\ result'.key = key

\* C6: a successful fill finds a record under its key and leaves none, and a
\* record appears under a key only by a successful creation for that key; so
\* a key is not filled twice without a creation in between.
C6_FillDeletes == [][C6_Step]_vars

C6_Witness ==
    /\ result.op = "fill"
    /\ result.status = "Ok"
    /\ result.value.block < sequence
    /\ result.key \notin DOMAIN auctions

C7_Step ==
    (result'.op \in {"create", "create_liquidation"} /\ result'.key \in DOMAIN auctions)
        => (result'.status # "Ok" /\ auctions' = auctions)

\* C7: create and create_liquidation fail and leave the stored records
\* unchanged when a record already exists under the key they would write.
C7_UniquePerKey == [][C7_Step]_vars

C7_Witness ==
    /\ result.op \in {"create", "create_liquidation"}
    /\ result.status = "BadRequest"
    /\ result.key \in DOMAIN auctions
    /\ auctions[result.key].block < sequence

C8_Step ==
    (result'.op = "create" /\ result'.key[1] = UserLiquidation)
        => (result'.status = "BadRequest" /\ auctions' = auctions)

\* C8: create called with the UserLiquidation type fails with BadRequest and
\* stores nothing.
C8_GenericCreateRejectsLiquidation == [][C8_Step]_vars

C8_Witness ==
    /\ result.op = "create"
    /\ result.key[1] = UserLiquidation
    /\ result.status = "BadRequest"
    /\ DOMAIN auctions # {}

C9_Step ==
    result'.op = "create_liquidation"
        => LET position_data ==
                   calculate_from_positions(positions[result'.key[2]], prices)
           IN  /\ result'.status = "Ok"
                     => /\ position_data.liability_base > position_data.collateral_base
                        /\ result'.key \in DOMAIN auctions'
               /\ position_data.liability_base <= position_data.collateral_base
                     => (result'.status # "Ok" /\ auctions' = auctions)

\* C9: create_liquidation stores an auction only for a user whose
\* liability_base exceeds their collateral_base at the call; for a healthy
\* user, equality included, it fails and writes nothing.
C9_LiquidationOnlyIfUnhealthy == [][C9_Step]_vars

C9_Witness ==
    /\ result.op = "create_liquidation"
    /\ result.status # "Ok"
    /\ result.key \notin DOMAIN auctions
    /\ LET position_data == calculate_from_positions(positions[result.key[2]], prices)
       IN  /\ position_data.liability_base = position_data.collateral_base
           /\ position_data.liability_base > 0

C10_Step ==
    (result'.op = "delete_liquidation" /\ result'.key \in DOMAIN auctions)
        => LET position_data ==
                   calculate_from_positions(positions[result'.key[2]], prices)
           IN  IF position_data.collateral_base > position_data.liability_base
               THEN /\ result'.status = "Ok"
                    /\ auctions' = del_auction(auctions, result'.key[1], result'.key[2])
               ELSE /\ result'.status = "InvalidHf"
                    /\ auctions' = auctions

C11_Step ==
    (result'.op = "delete_liquidation" /\ result'.key \notin DOMAIN auctions)
        => (result'.status = "BadRequest" /\ UNCHANGED ledger_state)

\* C11: delete_liquidation for a user without a UserLiquidation record fails
\* with BadRequest whatever the user's health (the record is looked for before
\* the positions are valued against the oracle), and changes no state.
C11_DeleteNeedsRecord == [][C11_Step]_vars

C11_Witness ==
    /\ result.op = "delete_liquidation"
    /\ result.status = "BadRequest"
    /\ result.key \notin DOMAIN auctions
    /\ is_unhealthy(calculate_from_positions(positions[result.key[2]], prices))

C12_Step ==
    (result'.op = "delete_liquidation" /\ result'.status = "InvalidHf")
        => /\ result'.key \in DOMAIN auctions
           /\ result'.key \in DOMAIN auctions'
           /\ auctions'[result'.key] = auctions[result'.key]

\* C12: when delete_liquidation fails because the user is still unhealthy, the
\* liquidation record exists afterwards with the bid, lot and block it had.
C12_FailedDeleteKeepsRecord == [][C12_Step]_vars

C12_Witness ==
    /\ result.op = "delete_liquidation"
    /\ result.status = "InvalidHf"
    /\ result.key \in DOMAIN auctions
    /\ auctions[result.key].block < sequence
    /\ DOMAIN auctions[result.key].bid # {}

C13_Step ==
    (result'.op = "fill" /\ result'.key \notin DOMAIN auctions)
        => (result'.status = "BadRequest" /\ UNCHANGED ledger_state)

\* C13: fill on a key without a stored record fails with BadRequest and leaves
\* the records, positions, reserves and balances as they were.
C13_FillNeedsRecord == [][C13_Step]_vars

C13_Witness ==
    /\ result.op = "fill"
    /\ result.status = "BadRequest"
    /\ result.key[1] = UserLiquidation
    /\ result.key \notin DOMAIN auctions
    /\ DOMAIN auctions # {}
    /\ balances[1][Frodo] > 0

C14_Step ==
    result'.op = "preview_fill"
        => /\ UNCHANGED ledger_state
           /\ (result'.status = "Ok") = (result'.key \in DOMAIN auctions)
           /\ (result.op = "preview_fill" /\ result.key = result'.key)
                 => result' = result

C15_Step ==
    (/\ result'.op \in {"create", "create_liquidation", "delete_liquidation", "fill"}
     /\ result'.status # "Ok")
        => UNCHANGED ledger_state

\* C15: an auction operation that fails changes nothing: after a fill that
\* fails at any step (a transfer_from refused after d_supply and the subject's
\* liabilities were already reduced) the record, every d_supply, the positions
\* and all balances equal their values before the call.
C15_AllOrNothing == [][C15_Step]_vars

C15_Witness ==
    /\ result.op = "fill"
    /\ result.status = "InsufficientBalance"
    /\ result.key \in DOMAIN auctions
    /\ \E i \in DOMAIN auctions[result.key].bid \cap ReserveIdx :
          /\ auctions[result.key].bid[i] > 0
          /\ d_supply[i] = 5
          /\ positions[result.key[2]].liabilities[i] >= auctions[result.key].bid[i]

C16_Step ==
    \A key \in DOMAIN auctions \cap DOMAIN auctions' :
        auctions'[key].block = auctions[key].block

\* C16: the block of a stored auction does not change from its creation to
\* its removal.
C16_BlockFixed == [][C16_Step]_vars

C16_Witness ==
    /\ result.op = "create"
    /\ result.status = "Ok"
    /\ \E key \in DOMAIN auctions :
          /\ key # result.key
          /\ auctions[key].block < sequence
          /\ auctions[result.key].block = sequence

C17_Stamped == \A key \in DOMAIN auctions : auctions[key].block <= sequence

C17_Step ==
    (result'.op \in {"create", "create_liquidation"} /\ result'.status = "Ok")
        => /\ result'.key \in DOMAIN auctions'
           /\ auctions'[result'.key] = result'.value
           /\ auctions'[result'.key].block = sequence

C18_Step ==
    (/\ result'.op \in {"create", "fill"}
     /\ result'.key[1] \notin {UserLiquidation, BadDebtAuction, InterestAuction})
        => (result'.status = "BadRequest" /\ UNCHANGED ledger_state)

\* C18: create or fill called with an auction type code outside {0, 1, 2}
\* fails with BadRequest and changes no state.
C18_InvalidTypeIsBadRequest == [][C18_Step]_vars

\* C18 in the code: fill with such a code finds no record (BadRequest),
\* create panics in AuctionType::from_u32 without a PoolError; neither writes
C18_InvalidTypeFails ==
    (/\ result.op \in {"create", "fill"}
     /\ result.key[1] \notin {UserLiquidation, BadDebtAuction, InterestAuction})
        => result.status = (IF result.op = "create" THEN "Panic" ELSE "BadRequest")

C18_Witness ==
    /\ result.op = "create"
    /\ result.key[1] = 3
    /\ result.status = "Panic"

\* ------------------------------------------------------------------------
\* Properties of position valuation (LoadSpec)
\* ------------------------------------------------------------------------

NoDelta(action) ==
    \/ action.asset \notin ReserveIdx
    \/ action.b_token_delta = 0 /\ action.d_token_delta = 0

AllBalances(balance, oracle, action) ==
    [collateral_base |->
        SumOver([i \in ReserveIdx |->
                    collateral_to_base(i, balance.collateral[i], oracle)
                    + (IF i = action.asset
                       THEN collateral_to_base(i, action.b_token_delta, oracle) ELSE 0)],
                ReserveIdx),
     liability_base |->
        SumOver([i \in ReserveIdx |->
                    liability_to_base(i, balance.liabilities[i], oracle)
                    + (IF i = action.asset
                       THEN liability_to_base(i, action.d_token_delta, oracle) ELSE 0)],
                ReserveIdx)]

\* C20 as stated: every non-zero b-token or d-token balance of the user
\* contributes to the totals, usage bit set or clear.
C20_EveryBalanceCounts ==
    (result.op = "load" /\ result.status = "Ok")
        => result.value.totals =
              AllBalances(positions[result.key[2]], prices, result.value.action)

\* the balances with those under a clear bit taken as zero
UnderSetBits(config, balance) ==
    [collateral |-> [i \in ReserveIdx |->
                        IF is_collateral(config, i) THEN balance.collateral[i] ELSE 0],
     liabilities |-> [i \in ReserveIdx |->
                        IF is_liability(config, i) THEN balance.liabilities[i] ELSE 0]]

\* C20: a balance contributes to the totals exactly when its usage bit is
\* set: the totals are those of the balances under set bits counted in full,
\* a balance under a clear bit adds nothing however large, and a set bit over
\* a zero balance adds 0.
C20_OnlySetBitsCount ==
    (result.op = "load" /\ result.status = "Ok")
        => /\ result.value.totals =
                 AllBalances(UnderSetBits(result.key[1], positions[result.key[2]]),
                             prices, result.value.action)
           /\ result.value.totals =
                 load(result.key[1],
                      UnderSetBits(result.key[1], positions[result.key[2]]),
                      prices, result.value.action)

C20_Witness ==
    /\ result.op = "load"
    /\ result.status = "Ok"
    /\ is_liability(result.key[1], 1)
    /\ ~is_collateral(result.key[1], 1)
    /\ is_collateral(result.key[1], 0)
    /\ positions[result.key[2]].collateral[1] > 0
    /\ positions[result.key[2]].collateral[0] = 0
    /\ positions[result.key[2]].liabilities[1] > 0
    /\ NoDelta(result.value.action)
    /\ result.value.totals.collateral_base = 0
    /\ result.value.totals.liability_base > 0

LoadOk == result.op = "load" /\ result.status = "Ok"

\* the action that names no reserve of the list and changes nothing
NoAction == [asset |-> UnlistedAsset, b_token_delta |-> 0, d_token_delta |-> 0]

\* C21: the totals under an action are the totals without it plus, for an
\* asset of the reserve list, floor(effective_asset(delta) * price / 1e7) on
\* the collateral side for b_token_delta and on the liability side for
\* d_token_delta, usage bits set or clear; an unlisted asset adds nothing.
C21_DeltaCountedOnce ==
    LoadOk =>
        LET action == result.value.action
            base == load(result.key[1], positions[result.key[2]], prices, NoAction)
            listed == action.asset \in ReserveIdx
            b_value == IF listed
                       THEN fixed_mul_floor(
                                to_effective_asset_from_b_token(action.asset,
                                                                action.b_token_delta),
                                prices[action.asset], SCALAR_7)
                       ELSE 0
            d_value == IF listed
                       THEN fixed_mul_floor(
                                to_effective_asset_from_d_token(action.asset,
                                                                action.d_token_delta),
                                prices[action.asset], SCALAR_7)
                       ELSE 0
        IN  result.value.totals =
                [collateral_base |-> base.collateral_base + b_value,
                 liability_base |-> base.liability_base + d_value]

C21_Witness ==
    /\ LoadOk
    /\ result.key[1] = 0
    /\ result.value.action = [asset |-> 1, b_token_delta |-> 2, d_token_delta |-> 1]
    /\ positions[result.key[2]].collateral[1] > 0
    /\ positions[result.key[2]].liabilities[1] > 0
    /\ result.value.totals.collateral_base > 0
    /\ result.value.totals.liability_base > 0

\* C22: with no delta, collateral_base is the sum over the collateral-active
\* reserves of floor(floor(floor(b * b_rate / 1e9) * c_factor / 1e7) * price / 1e7)
\* and liability_base the sum over the liability-active reserves of
\* floor(ceil(ceil(d * d_rate / 1e9) * 1e7 / l_factor) * price / 1e7); 10 b-tokens
\* at b_rate 1.1, c_factor 0.7 and price 5 give 38.5, and 1.2 d-tokens at
\* d_rate 1.1, l_factor 0.55 and price 10 give 24.
C22_ClosedForm ==
    (LoadOk /\ NoDelta(result.value.action)) =>
        LET config == result.key[1]
            held == positions[result.key[2]]
            collateral_of(i) ==
                IF ~is_collateral(config, i) THEN 0
                ELSE fixed_mul_floor(
                         fixed_mul_floor(
                             fixed_mul_floor(held.collateral[i],
                                             reserve_config[i].b_rate, SCALAR_9),
                             reserve_config[i].c_factor, SCALAR_7),
                         prices[i], SCALAR_7)
            liability_of(i) ==
                IF ~is_liability(config, i) THEN 0
                ELSE fixed_mul_floor(
                         fixed_div_ceil(
                             fixed_mul_ceil(held.liabilities[i],
                                            reserve_config[i].d_rate, SCALAR_9),
                             reserve_config[i].l_factor, SCALAR_7),
                         prices[i], SCALAR_7)
        IN  /\ result.value.totals.collateral_base =
                  SumOver([i \in ReserveIdx |-> collateral_of(i)], ReserveIdx)
            /\ result.value.totals.liability_base =
                  SumOver([i \in ReserveIdx |-> liability_of(i)], ReserveIdx)
            /\ (reserve_config = test_reserves /\ config = 16
                    /\ held.collateral[1] = 10 * SCALAR_7)
                  => result.value.totals = [collateral_base |-> 385000000,
                                            liability_base |-> 0]
            /\ (reserve_config = test_reserves /\ config = 1
                    /\ held.liabilities[0] = 12000000)
                  => result.value.totals = [collateral_base |-> 0,
                                            liability_base |-> 240000000]

C22_Witness ==
    /\ LoadOk
    /\ reserve_config = test_reserves
    /\ result.key[1] = 17
    /\ result.value.action = NoAction
    /\ positions[result.key[2]].collateral[0] > 0
    /\ positions[result.key[2]].liabilities[1] > 0
    /\ result.value.totals = [collateral_base |-> 385000000,
                              liability_base |-> 240000000]

\* C23: the valuation needs a price exactly for the reserves with a usage bit
\* set and for the action's asset: it succeeds whenever those are priced,
\* whether or not any other reserve has a price, and its totals do not depend
\* on the price of any other reserve.
C23_OnlyVisitedPriced ==
    result.op = "load" =>
        LET config == result.key[1]
            action == result.value.action
            needed == {i \in ReserveIdx :
                          is_active_reserve(config, i) \/ i = action.asset}
            elsewhere == [i \in ReserveIdx |->
                             IF i \in needed THEN prices[i] ELSE 7 * SCALAR_7]
        IN  /\ (result.status = "Ok") = (\A i \in needed : prices[i] # MissingPrice)
            /\ result.status = "Ok"
                  => result.value.totals =
                        load(config, positions[result.key[2]], elsewhere, action)

C23_Witness ==
    /\ LoadOk
    /\ prices[1] = MissingPrice
    /\ is_collateral(result.key[1], 0)
    /\ positions[result.key[2]].collateral[0] > 0
    /\ positions[result.key[2]].collateral[1] > 0
    /\ positions[result.key[2]].liabilities[1] > 0
    /\ result.value.totals.collateral_base > 0

\* C24: a zero or missing price of a reserve the valuation visits makes the
\* valuation fail; it returns no totals in which a visited reserve was valued
\* at price 0.
C24_ZeroPriceIsFatal ==
    result.op = "load" =>
        LET needed == {i \in ReserveIdx :
                          \/ is_active_reserve(result.key[1], i)
                          \/ i = result.value.action.asset}
        IN  (\E i \in needed : prices[i] \in {0, MissingPrice})
                => result.status # "Ok"

\* C24 in the code: a missing price stops the valuation in the oracle, a zero
\* price is multiplied in and the reserve counts for nothing
C24_ZeroPriceCountsNothing ==
    (LoadOk /\ NoDelta(result.value.action)) =>
        \A i \in ReserveIdx :
            (is_active_reserve(result.key[1], i) /\ prices[i] = 0)
                => result.value.totals =
                      load(result.key[1],
                           [collateral |-> [positions[result.key[2]].collateral
                                               EXCEPT ![i] = 0],
                            liabilities |-> [positions[result.key[2]].liabilities
                                               EXCEPT ![i] = 0]],
                           prices, result.value.action)

C24_Witness ==
    /\ LoadOk
    /\ prices[1] = 0
    /\ result.key[1] = 16
    /\ result.value.action = NoAction
    /\ positions[result.key[2]].collateral[1] > 0
    /\ result.value.totals = [collateral_base |-> 0, liability_base |-> 0]

\* ------------------------------------------------------------------------
\* Supply and borrow through the pool (tests/test_pool_borrow.rs,
\* tests/test_pool_supply.rs).  reserve_config holds the rates an invocation
\* works with, that is the stored rates brought up to the current ledger.
\* ------------------------------------------------------------------------

\* the reserve as the pool helper creates it, before any interest
fresh_reserve ==
    [i \in ReserveIdx |->
        [c_factor |-> 7500000, l_factor |-> 7500000,
         b_rate |-> SCALAR_9, d_rate |-> SCALAR_9]]

\* the rates of a reserve after a year with debt outstanding
accrued_rates ==
    [c_factor |-> 7500000, l_factor |-> 7500000,
     b_rate |-> 1020000000, d_rate |-> 1060000000]

\* ledgers of a year
YearOfBlocks == 6307200

\* the asset the pool's users supply and borrow
PoolAsset == 0

PoolUsers == {Samwise, Frodo}

\* prices of the asset: the tests' price and a price below half a unit
PoolPrices == {2 * SCALAR_7, 4000000}

\* Samwise deals in tokens, Frodo in stroops
SupplyAmount(from) == IF from = Samwise THEN SCALAR_7 ELSE 10

\* what a user holds of the asset at the start: enough to supply once
Funds(x) == IF x \in PoolUsers THEN SupplyAmount(x) ELSE 0

BorrowAmounts(from) == IF from = Samwise THEN {5357000, 5358000} ELSE {1}

\* who a borrower has the funds sent to: themselves or a third party
Recipients(from) == {from, Backstop}

\* the usage bits the pool keeps for a user: set while the balance is non-zero
config_of(pos) ==
    SumOver([i \in ReserveIdx |->
                (IF pos.liabilities[i] > 0 THEN 2 ^ liability_key(i) ELSE 0)
                + (IF pos.collateral[i] > 0 THEN 2 ^ supply_key(i) ELSE 0)],
            ReserveIdx)

\* b-tokens minted for an amount supplied
to_b_token_down(i, amount) ==
    fixed_div_floor(amount, reserve_config[i].b_rate, SCALAR_9)

to_d_token_up_Floor(i, amount) ==
    fixed_div_floor(amount, reserve_config[i].d_rate, SCALAR_9)

\* d-tokens minted for an amount borrowed
to_d_token_up(i, amount) ==
    fixed_div_ceil(amount, reserve_config[i].d_rate, SCALAR_9)

below_min_hf_NoMargin(data) == data.liability_base > data.collateral_base

\* 1.05 * liability_base > collateral_base
below_min_hf(data) ==
    LET q == data.liability_base \div 20
        r == data.liability_base % 20
    IN  \/ 21 * q + r > data.collateral_base
        \/ 21 * q + r = data.collateral_base /\ r > 0

\* the invocation fails: nothing is written, the caller gets the error
Reject(op, key, err, inputs) ==
    /\ result' = Outcome(op, key, err, inputs)
    /\ UNCHANGED ledger_state

pool_supply(from, asset, amount) ==
    LET key == <<asset, from>>
        to_mint == to_b_token_down(asset, amount)
        inputs == [amount |-> amount]
    IN  IF pool_status = 2 THEN Reject("supply", key, "InvalidPoolStatus", inputs)
        ELSE IF balances[asset][from] < amount
        THEN Reject("supply", key, "BalanceError", inputs)
        ELSE /\ positions' = [positions EXCEPT ![from].collateral[asset] = @ + to_mint]
             /\ b_supply' = [b_supply EXCEPT ![asset] = @ + to_mint]
             /\ balances' = [balances EXCEPT ![asset][from] = @ - amount,
                                             ![asset][PoolAddress] = @ + amount]
             /\ result' = Outcome("supply", key, "Ok",
                                  [amount |-> amount, minted |-> to_mint])
             /\ UNCHANGED <<sequence, auctions, d_supply, bstop_credit, prices,
                            allowances, bstop_balances, reserve_config, pool_status,
                            emission_state, token_state>>

pool_borrow_HfFirst(from, asset, amount, to) ==
    LET key == <<asset, from>>
        to_mint == to_d_token_up(asset, amount)
        action == [asset |-> asset, b_token_delta |-> 0, d_token_delta |-> to_mint]
        data == load(config_of(positions[from]), positions[from], prices, action)
        inputs == [amount |-> amount, to |-> to]
    IN  IF below_min_hf(data) THEN Reject("borrow", key, "InvalidHf", inputs)
        ELSE IF pool_status > 0 THEN Reject("borrow", key, "InvalidPoolStatus", inputs)
        ELSE IF balances[asset][PoolAddress] < amount
        THEN Reject("borrow", key, "BalanceError", inputs)
        ELSE /\ positions' = [positions EXCEPT ![from].liabilities[asset] = @ + to_mint]
             /\ d_supply' = [d_supply EXCEPT ![asset] = @ + to_mint]
             /\ balances' = [balances EXCEPT
                                ![asset] = [x \in Addresses |->
                                    balances[asset][x]
                                    + (IF x = to THEN amount ELSE 0)
                                    - (IF x = PoolAddress THEN amount ELSE 0)]]
             /\ result' = Outcome("borrow", key, "Ok",
                                  [amount |-> amount, to |-> to, minted |-> to_mint])
             /\ UNCHANGED <<sequence, auctions, bstop_credit, prices, allowances,
                            bstop_balances, reserve_state, emission_state, token_state>>

pool_borrow(from, asset, amount, to) ==
    LET key == <<asset, from>>
        to_mint == to_d_token_up(asset, amount)
        action == [asset |-> asset, b_token_delta |-> 0, d_token_delta |-> to_mint]
        data == load(config_of(positions[from]), positions[from], prices, action)
        inputs == [amount |-> amount, to |-> to]
    IN  IF pool_status > 0 THEN Reject("borrow", key, "InvalidPoolStatus", inputs)
        ELSE IF below_min_hf(data) THEN Reject("borrow", key, "InvalidHf", inputs)
        ELSE IF balances[asset][PoolAddress] < amount
        THEN Reject("borrow", key, "BalanceError", inputs)
        ELSE /\ positions' = [positions EXCEPT ![from].liabilities[asset] = @ + to_mint]
             /\ d_supply' = [d_supply EXCEPT ![asset] = @ + to_mint]
             /\ balances' = [balances EXCEPT
                                ![asset] = [x \in Addresses |->
                                    balances[asset][x]
                                    + (IF x = to THEN amount ELSE 0)
                                    - (IF x = PoolAddress THEN amount ELSE 0)]]
             /\ result' = Outcome("borrow", key, "Ok",
                                  [amount |-> amount, to |-> to, minted |-> to_mint])
             /\ UNCHANGED <<sequence, auctions, bstop_credit, prices, allowances,
                            bstop_balances, reserve_state, emission_state, token_state>>

set_status(pool_status_new) ==
    /\ pool_status' = pool_status_new
    /\ result' = Outcome("set_status", <<pool_status_new, PoolAddress>>, "Ok", <<>>)
    /\ UNCHANGED <<sequence, auctions, positions, d_supply, bstop_credit, prices,
                   balances, allowances, bstop_balances, reserve_config, b_supply,
                   emission_state, token_state>>

\* a year passes with debt outstanding
AccrueInterest ==
    /\ reserve_config = fresh_reserve
    /\ d_supply[PoolAsset] > 0
    /\ reserve_config' = [reserve_config EXCEPT ![PoolAsset] = accrued_rates]
    /\ sequence' = sequence + YearOfBlocks
    /\ result' = NoResult
    /\ UNCHANGED <<auctions, positions, d_supply, bstop_credit, prices, balances,
                   allowances, bstop_balances, b_supply, pool_status, emission_state,
                   token_state>>

PoolInit ==
    /\ sequence = 0
    /\ reserve_config = fresh_reserve
    /\ b_supply = [i \in ReserveIdx |-> 0]
    /\ d_supply = [i \in ReserveIdx |-> 0]
    /\ pool_status = 0
    /\ NoEmissions
    /\ NoToken
    /\ auctions = EmptyMap
    /\ positions = [a \in Addresses |-> NoPositions]
    /\ bstop_credit = [i \in ReserveIdx |-> 0]
    /\ prices \in {(0 :> p) @@ (1 :> SCALAR_7) : p \in PoolPrices}
    /\ balances = [i \in ReserveIdx |->
                     [x \in Addresses |-> Funds(x)]]
    /\ allowances = [i \in ReserveIdx |->
                       [x \in Addresses |-> Funds(x)]]
    /\ bstop_balances = [x \in Addresses |-> 0]
    /\ result = NoResult

PoolNext ==
    \/ \E from \in PoolUsers : pool_supply(from, PoolAsset, SupplyAmount(from))
    \/ \E from \in PoolUsers :
          \E amount \in BorrowAmounts(from), to \in Recipients(from) :
             pool_borrow(from, PoolAsset, amount, to)
    \/ \E pool_status_new \in 0 .. 2 : set_status(pool_status_new)
    \/ AccrueInterest

PoolSpec == PoolInit /\ [][PoolNext]_vars

BorrowOk == result.op = "borrow" /\ result.status = "Ok"

SupplyOk == result.op = "supply" /\ result.status = "Ok"

\* ceil(x * y / denominator) for x, y >= 0
CeilOf(x, y, denominator) ==
    LET qr == MulDiv(x, y, denominator)
    IN  IF qr[2] = 0 THEN qr[1] ELSE qr[1] + 1

FloorOf(x, y, denominator) == MulDiv(x, y, denominator)[1]

C26_BorrowMintsAtLeastOne ==
    [][/\ (result'.op = "borrow" /\ result'.status = "Ok") =>
            LET from == result'.key[2]
                asset == result'.key[1]
                amount == result'.value.amount
                to == result'.value.to
            IN  /\ result'.value.minted >= 1
                /\ amount = 1 => result'.value.minted = 1
                /\ balances'[asset][PoolAddress] = balances[asset][PoolAddress] - amount
                /\ balances'[asset][to] = balances[asset][to] + amount
                /\ positions'[from].liabilities[asset]
                      = positions[from].liabilities[asset] + result'.value.minted
       /\ \A u \in Addresses, i \in ReserveIdx :
            positions'[u].liabilities[i] # positions[u].liabilities[i]
               => /\ result'.op = "borrow" /\ result'.status = "Ok"
                  /\ result'.key = <<i, u>>
      ]_vars

C26_Witness ==
    /\ BorrowOk
    /\ reserve_config[PoolAsset].d_rate > SCALAR_9
    /\ result.value.amount = 1
    /\ result.value.minted = 1
    /\ positions[result.key[2]].liabilities[PoolAsset] = 2

\* the totals a borrow of the amount is judged on: the borrower's positions
\* and the d-tokens the borrow would mint
BorrowTotals(from, asset, amount) ==
    [collateral_base |->
        SumOver([i \in ReserveIdx |->
                    collateral_to_base(i, positions[from].collateral[i], prices)],
                ReserveIdx),
     liability_base |->
        SumOver([i \in ReserveIdx |->
                    liability_to_base(i, positions[from].liabilities[i], prices)],
                ReserveIdx)
        + liability_to_base(asset,
                            CeilOf(amount, SCALAR_9, reserve_config[asset].d_rate),
                            prices)]

C28_StatusGates ==
    /\ result.op = "supply" => (result.status = "InvalidPoolStatus") = (pool_status = 2)
    /\ result.op = "borrow" => (result.status = "InvalidPoolStatus") = (pool_status # 0)
    /\ result.op = "set_status" => pool_status = result.key[1]

C28_Witness ==
    /\ result.op = "borrow"
    /\ result.status = "InvalidPoolStatus"
    /\ result.value.amount = 5358000
    /\ pool_status = 1
    /\ positions[result.key[2]].collateral[PoolAsset] = SCALAR_7
    /\ positions[result.key[2]].liabilities[PoolAsset] = 0

\* ------------------------------------------------------------------------
\* The emissions manager (emissions_manager.rs)
\* ------------------------------------------------------------------------

\* seconds between two ledger times of the model
EmisStep == 50

\* ledger times reached: 0, EmisStep, .. MaxEmisSteps * EmisStep
MaxEmisSteps == 2

\* expirations update_emissions is called with
NextExpChoices == {k * EmisStep : k \in 0 .. MaxEmisSteps}

\* the eps the backstop passes for the pool
PoolEpsChoices == {5000000}

\* reserve indexes an emission metadata entry names; 2 is past the reserve list
EmisIndexes == 0 .. 2

\* keys of the reserve tokens of those indexes
EmisKeys == UNION {{liability_key(i), supply_key(i)} : i \in EmisIndexes}

Metadata(res_index, res_type, share) ==
    [res_index |-> res_index, res_type |-> res_type, share |-> share]

\* metadata the admin sets: none; the tests' two configurations; shares that
\* do not divide evenly; one token named twice; shares over 1 in total by one
\* unit and by a quarter
MetadataChoices ==
    { <<>>,
      <<Metadata(1, 0, 7500000), Metadata(1, 1, 2500000)>>,
      <<Metadata(0, 0, 2500000), Metadata(2, 1, 7500000)>>,
      <<Metadata(0, 1, 3333333), Metadata(1, 0, 3333333)>>,
      <<Metadata(1, 1, 2000000), Metadata(1, 1, 3333333)>>,
      <<Metadata(0, 1, 3500000), Metadata(2, 0, 6500001)>>,
      <<Metadata(0, 0, 7500000), Metadata(1, 1, 5000000)>> }

\* the reserve of a reserve token key and the supply its emissions go to
supply_of(key) ==
    IF key % 3 = 0 THEN d_supply[key \div 3] ELSE b_supply[key \div 3]

\* emissions_distributor::update_emission_data: the index takes the
\* emissions of the old config since the data's last_time
update_emission_data(key) ==
    LET data == res_emis_data[key]
        config == res_emis_config[key]
        ending == IF timestamp > config.expiration THEN config.expiration ELSE timestamp
    IN  IF \/ data.last_time >= config.expiration
           \/ timestamp = data.last_time
           \/ config.eps = 0
           \/ supply_of(key) = 0
        THEN data
        ELSE [index |-> data.index
                        + fixed_div_floor((ending - data.last_time) * config.eps,
                                          supply_of(key), SCALAR_7),
              last_time |-> timestamp]

\* the data entry update_reserve_emission_data leaves under the key
update_reserve_emission_data(key) ==
    IF key \in DOMAIN res_emis_data
    THEN update_emission_data(key)
    ELSE [index |-> 0, last_time |-> timestamp]

update_reserve_emission_config_Ceil(expiration, pool_eps, eps_share) ==
    [expiration |-> expiration, eps |-> fixed_mul_ceil(eps_share, pool_eps, SCALAR_7)]

\* the config entry update_reserve_emission_config writes under the key
update_reserve_emission_config(expiration, pool_eps, eps_share) ==
    [expiration |-> expiration, eps |-> fixed_mul_floor(eps_share, pool_eps, SCALAR_7)]

\* the keys the loop over the reserve list meets with their bit set
flagged_in_list(config) ==
    {liability_key(i) : i \in {j \in ReserveIdx : is_liability(config, j)}}
    \cup {supply_key(i) : i \in {j \in ReserveIdx : is_supply(config, j)}}

update_emissions_AllowsRepeat(next_exp, pool_eps) ==
    LET key == <<next_exp, PoolAddress>>
        keys == flagged_in_list(pool_emis_config.config)
    IN  IF next_exp < pool_emis_config.last_time
        THEN Reject("update_emissions", key, "BadRequest", [pool_eps |-> pool_eps])
        ELSE /\ res_emis_data' =
                   [k \in DOMAIN res_emis_data \cup keys |->
                       IF k \in keys THEN update_reserve_emission_data(k)
                       ELSE res_emis_data[k]]
             /\ res_emis_config' =
                   [k \in DOMAIN res_emis_config \cup keys |->
                       IF k \in keys
                       THEN update_reserve_emission_config(next_exp, pool_eps,
                                                           pool_emissions[k])
                       ELSE res_emis_config[k]]
             /\ pool_emis_config' = [pool_emis_config EXCEPT !.last_time = next_exp]
             /\ result' = Outcome("update_emissions", key, "Ok",
                                  [pool_eps |-> pool_eps, returned |-> next_exp])
             /\ UNCHANGED <<sequence, auctions, positions, d_supply, bstop_credit,
                            prices, balances, allowances, bstop_balances,
                            reserve_state, timestamp, pool_emissions, token_state>>

update_emissions_ConfigFirst(next_exp, pool_eps) ==
    LET key == <<next_exp, PoolAddress>>
        keys == flagged_in_list(pool_emis_config.config)
    IN  IF next_exp <= pool_emis_config.last_time
        THEN Reject("update_emissions", key, "BadRequest", [pool_eps |-> pool_eps])
        ELSE /\ res_emis_data' =
                   [k \in DOMAIN res_emis_data \cup keys |->
                       IF k \notin keys THEN res_emis_data[k]
                       ELSE IF k \notin DOMAIN res_emis_data
                       THEN [index |-> 0, last_time |-> timestamp]
                       ELSE LET data == res_emis_data[k]
                                config == update_reserve_emission_config(
                                              next_exp, pool_eps, pool_emissions[k])
                                ending == IF timestamp > config.expiration
                                          THEN config.expiration ELSE timestamp
                            IN  IF \/ data.last_time >= config.expiration
                                   \/ timestamp = data.last_time
                                   \/ config.eps = 0
                                   \/ supply_of(k) = 0
                                THEN data
                                ELSE [index |-> data.index
                                          + fixed_div_floor(
                                                (ending - data.last_time) * config.eps,
                                                supply_of(k), SCALAR_7),
                                      last_time |-> timestamp]]
             /\ res_emis_config' =
                   [k \in DOMAIN res_emis_config \cup keys |->
                       IF k \in keys
                       THEN update_reserve_emission_config(next_exp, pool_eps,
                                                           pool_emissions[k])
                       ELSE res_emis_config[k]]
             /\ pool_emis_config' = [pool_emis_config EXCEPT !.last_time = next_exp]
             /\ result' = Outcome("update_emissions", key, "Ok",
                                  [pool_eps |-> pool_eps, returned |-> next_exp])
             /\ UNCHANGED <<sequence, auctions, positions, d_supply, bstop_credit,
                            prices, balances, allowances, bstop_balances,
                            reserve_state, timestamp, pool_emissions, token_state>>

update_emissions(next_exp, pool_eps) ==
    LET key == <<next_exp, PoolAddress>>
        keys == flagged_in_list(pool_emis_config.config)
    IN  IF next_exp <= pool_emis_config.last_time
        THEN Reject("update_emissions", key, "BadRequest", [pool_eps |-> pool_eps])
        ELSE /\ res_emis_data' =
                   [k \in DOMAIN res_emis_data \cup keys |->
                       IF k \in keys THEN update_reserve_emission_data(k)
                       ELSE res_emis_data[k]]
             /\ res_emis_config' =
                   [k \in DOMAIN res_emis_config \cup keys |->
                       IF k \in keys
                       THEN update_reserve_emission_config(next_exp, pool_eps,
                                                           pool_emissions[k])
                       ELSE res_emis_config[k]]
             /\ pool_emis_config' = [pool_emis_config EXCEPT !.last_time = next_exp]
             /\ result' = Outcome("update_emissions", key, "Ok",
                                  [pool_eps |-> pool_eps, returned |-> next_exp])
             /\ UNCHANGED <<sequence, auctions, positions, d_supply, bstop_credit,
                            prices, balances, allowances, bstop_balances,
                            reserve_state, timestamp, pool_emissions, token_state>>

set_pool_emissions_RejectsWhole(res_emission_metadata) ==
    LET entries == 1 .. Len(res_emission_metadata)
        key_of(j) == IF res_emission_metadata[j].res_type = 0
                     THEN liability_key(res_emission_metadata[j].res_index)
                     ELSE supply_key(res_emission_metadata[j].res_index)
        keys == {key_of(j) : j \in entries}
        last_entry(k) == CHOOSE j \in entries :
                            /\ key_of(j) = k
                            /\ \A l \in entries : key_of(l) = k => l <= j
        total_share == SumOver([j \in entries |-> res_emission_metadata[j].share],
                               entries)
        key == <<Len(res_emission_metadata), PoolAddress>>
        inputs == [res_emission_metadata |-> res_emission_metadata]
    IN  IF total_share >= SCALAR_7
        THEN Reject("set_pool_emissions", key, "BadRequest", inputs)
        ELSE /\ pool_emis_config' = [config |-> SumOver([k \in keys |-> 2 ^ k], keys),
                                     last_time |-> pool_emis_config.last_time]
             /\ pool_emissions' = [k \in keys |-> res_emission_metadata[last_entry(k)].share]
             /\ result' = Outcome("set_pool_emissions", key, "Ok", inputs)
             /\ UNCHANGED <<sequence, auctions, positions, d_supply, bstop_credit,
                            prices, balances, allowances, bstop_balances,
                            reserve_state, timestamp, res_emis_config, res_emis_data,
                            token_state>>

set_pool_emissions_NoShareCheck(res_emission_metadata) ==
    LET entries == 1 .. Len(res_emission_metadata)
        key_of(j) == IF res_emission_metadata[j].res_type = 0
                     THEN liability_key(res_emission_metadata[j].res_index)
                     ELSE supply_key(res_emission_metadata[j].res_index)
        keys == {key_of(j) : j \in entries}
        last_entry(k) == CHOOSE j \in entries :
                            /\ key_of(j) = k
                            /\ \A l \in entries : key_of(l) = k => l <= j
        total_share == SumOver([j \in entries |-> res_emission_metadata[j].share],
                               entries)
        key == <<Len(res_emission_metadata), PoolAddress>>
        inputs == [res_emission_metadata |-> res_emission_metadata]
    IN  IF total_share > 2 * SCALAR_7
        THEN Reject("set_pool_emissions", key, "BadRequest", inputs)
        ELSE /\ pool_emis_config' = [config |-> SumOver([k \in keys |-> 2 ^ k], keys),
                                     last_time |-> pool_emis_config.last_time]
             /\ pool_emissions' = [k \in keys |-> res_emission_metadata[last_entry(k)].share]
             /\ result' = Outcome("set_pool_emissions", key, "Ok", inputs)
             /\ UNCHANGED <<sequence, auctions, positions, d_supply, bstop_credit,
                            prices, balances, allowances, bstop_balances,
                            reserve_state, timestamp, res_emis_config, res_emis_data,
                            token_state>>

set_pool_emissions_Merges(res_emission_metadata) ==
    LET entries == 1 .. Len(res_emission_metadata)
        key_of(j) == IF res_emission_metadata[j].res_type = 0
                     THEN liability_key(res_emission_metadata[j].res_index)
                     ELSE supply_key(res_emission_metadata[j].res_index)
        keys == {key_of(j) : j \in entries}
        last_entry(k) == CHOOSE j \in entries :
                            /\ key_of(j) = k
                            /\ \A l \in entries : key_of(l) = k => l <= j
        total_share == SumOver([j \in entries |-> res_emission_metadata[j].share],
                               entries)
        key == <<Len(res_emission_metadata), PoolAddress>>
        inputs == [res_emission_metadata |-> res_emission_metadata]
    IN  IF total_share > SCALAR_7
        THEN Reject("set_pool_emissions", key, "BadRequest", inputs)
        ELSE /\ pool_emis_config' =
                   [config |-> SumOver([k \in keys \cup DOMAIN pool_emissions |-> 2 ^ k],
                                       keys \cup DOMAIN pool_emissions),
                    last_time |-> pool_emis_config.last_time]
             /\ pool_emissions' =
                   [k \in keys \cup DOMAIN pool_emissions |->
                       IF k \in keys THEN res_emission_metadata[last_entry(k)].share
                       ELSE pool_emissions[k]]
             /\ result' = Outcome("set_pool_emissions", key, "Ok", inputs)
             /\ UNCHANGED <<sequence, auctions, positions, d_supply, bstop_credit,
                            prices, balances, allowances, bstop_balances,
                            reserve_state, timestamp, res_emis_config, res_emis_data,
                            token_state>>

set_pool_emissions(res_emission_metadata) ==
    LET entries == 1 .. Len(res_emission_metadata)
        key_of(j) == IF res_emission_metadata[j].res_type = 0
                     THEN liability_key(res_emission_metadata[j].res_index)
                     ELSE supply_key(res_emission_metadata[j].res_index)
        keys == {key_of(j) : j \in entries}
        last_entry(k) == CHOOSE j \in entries :
                            /\ key_of(j) = k
                            /\ \A l \in entries : key_of(l) = k => l <= j
        total_share == SumOver([j \in entries |-> res_emission_metadata[j].share],
                               entries)
        key == <<Len(res_emission_metadata), PoolAddress>>
        inputs == [res_emission_metadata |-> res_emission_metadata]
    IN  IF total_share > SCALAR_7
        THEN Reject("set_pool_emissions", key, "BadRequest", inputs)
        ELSE /\ pool_emis_config' = [config |-> SumOver([k \in keys |-> 2 ^ k], keys),
                                     last_time |-> pool_emis_config.last_time]
             /\ pool_emissions' = [k \in keys |-> res_emission_metadata[last_entry(k)].share]
             /\ result' = Outcome("set_pool_emissions", key, "Ok", inputs)
             /\ UNCHANGED <<sequence, auctions, positions, d_supply, bstop_credit,
                            prices, balances, allowances, bstop_balances,
                            reserve_state, timestamp, res_emis_config, res_emis_data,
                            token_state>>

\* the ledger closes and time passes
AdvanceTime ==
    /\ timestamp < MaxEmisSteps * EmisStep
    /\ timestamp' = timestamp + EmisStep
    /\ result' = NoResult
    /\ UNCHANGED <<sequence, auctions, positions, d_supply, bstop_credit, prices,
                   balances, allowances, bstop_balances, reserve_state,
                   pool_emis_config, pool_emissions, res_emis_config, res_emis_data,
                   token_state>>

EmisInit ==
    /\ sequence = 0
    /\ reserve_config = fresh_reserve
    /\ b_supply = [i \in ReserveIdx |-> 100 * SCALAR_7]
    /\ d_supply = [i \in ReserveIdx |-> 50 * SCALAR_7]
    /\ pool_status = 0
    /\ NoEmissions
    /\ NoToken
    /\ auctions = EmptyMap
    /\ positions = [a \in Addresses |-> NoPositions]
    /\ bstop_credit = [i \in ReserveIdx |-> 0]
    /\ prices = [i \in ReserveIdx |-> SCALAR_7]
    /\ balances = [i \in ReserveIdx |-> [x \in Addresses |-> 0]]
    /\ allowances = [i \in ReserveIdx |-> [x \in Addresses |-> 0]]
    /\ bstop_balances = [x \in Addresses |-> 0]
    /\ result = NoResult

EmisNext ==
    \/ \E next_exp \in NextExpChoices, pool_eps \in PoolEpsChoices :
          update_emissions(next_exp, pool_eps)
    \/ \E res_emission_metadata \in MetadataChoices :
          set_pool_emissions(res_emission_metadata)
    \/ AdvanceTime

EmisSpec == EmisInit /\ [][EmisNext]_vars

\* C29: update_emissions fails with BadRequest, changing no emission config
\* or data, exactly when next_exp <= the pool emission config's last_time; a
\* successful update raises last_time, and no step lowers it, so no
\* expiration is applied twice.
C29_CycleAppliedOnce ==
    [][/\ result'.op = "update_emissions" =>
            /\ (result'.status = "BadRequest")
                  = (result'.key[1] <= pool_emis_config.last_time)
            /\ result'.status = "BadRequest" => UNCHANGED ledger_state
            /\ result'.status = "Ok" =>
                  /\ pool_emis_config'.last_time > pool_emis_config.last_time
                  /\ pool_emis_config'.last_time = result'.key[1]
       /\ pool_emis_config'.last_time >= pool_emis_config.last_time
      ]_vars

C29_Witness ==
    /\ result.op = "update_emissions"
    /\ result.status = "BadRequest"
    /\ result.key[1] = pool_emis_config.last_time
    /\ pool_emis_config.last_time > 0
    /\ pool_emis_config.config = 24
    /\ DOMAIN res_emis_config = {3, 4}

UpdateOk == result.op = "update_emissions" /\ result.status = "Ok"

\* the bit of a reserve token key in a bitmask
flagged(config, key) == (config \div 2 ^ key) % 2 = 1

\* C30: a successful update_emissions returns next_exp, sets last_time to
\* next_exp and, for exactly the flagged reserve tokens of the reserves in the
\* reserve list, writes a config with expiration next_exp and eps
\* floor(share * pool_eps / 1e7); every other token's config is neither
\* created nor changed.
C30_FlaggedConfigsWritten ==
    [][(result'.op = "update_emissions" /\ result'.status = "Ok") =>
          LET next_exp == result'.key[1]
              pool_eps == result'.value.pool_eps
          IN  /\ result'.value.returned = next_exp
              /\ pool_emis_config' = [config |-> pool_emis_config.config,
                                      last_time |-> next_exp]
              /\ \A key \in EmisKeys :
                    IF flagged(pool_emis_config.config, key) /\ key \div 3 \in ReserveIdx
                    THEN /\ key \in DOMAIN res_emis_config'
                         /\ res_emis_config'[key]
                               = [expiration |-> next_exp,
                                  eps |-> FloorOf(pool_emissions[key], pool_eps, SCALAR_7)]
                         /\ (pool_emissions[key] = 7500000 /\ pool_eps = 5000000)
                               => res_emis_config'[key].eps = 3750000
                         /\ (pool_emissions[key] = 2500000 /\ pool_eps = 5000000)
                               => res_emis_config'[key].eps = 1250000
                    ELSE /\ (key \in DOMAIN res_emis_config')
                               = (key \in DOMAIN res_emis_config)
                         /\ key \in DOMAIN res_emis_config
                               => res_emis_config'[key] = res_emis_config[key]
              /\ DOMAIN res_emis_config' \subseteq EmisKeys
      ]_vars

\* C30 as stated: every token flagged in the bitmask gets the new config
C30_EveryFlaggedTokenConfigured ==
    [][(result'.op = "update_emissions" /\ result'.status = "Ok") =>
          \A key \in EmisKeys :
              flagged(pool_emis_config.config, key)
                 => /\ key \in DOMAIN res_emis_config'
                    /\ res_emis_config'[key].expiration = result'.key[1]
      ]_vars

C30_Witness ==
    /\ UpdateOk
    /\ pool_emis_config = [config |-> 24, last_time |-> result.key[1]]
    /\ result.value.returned = result.key[1]
    /\ DOMAIN res_emis_config = {1, 3, 4}
    /\ res_emis_config[3] = [expiration |-> result.key[1], eps |-> 3750000]
    /\ res_emis_config[4] = [expiration |-> result.key[1], eps |-> 1250000]
    /\ res_emis_config[1].expiration < result.key[1]
    /\ res_emis_config[1].eps = 1666666

\* C31: in a successful update_emissions the data of each flagged reserve
\* token is brought up to the ledger's timestamp under the config the token
\* had before the call (its eps, its expiration), not the one the call writes;
\* a token without data gets index 0 and last_time = timestamp; the data of
\* every other token stays as it was.
C31_DataBeforeConfig ==
    [][(result'.op = "update_emissions" /\ result'.status = "Ok") =>
          \A key \in EmisKeys :
             IF flagged(pool_emis_config.config, key) /\ key \div 3 \in ReserveIdx
             THEN /\ key \in DOMAIN res_emis_data'
                  /\ IF key \notin DOMAIN res_emis_data
                     THEN res_emis_data'[key] = [index |-> 0, last_time |-> timestamp]
                     ELSE LET data == res_emis_data[key]
                              old == res_emis_config[key]
                              supply == IF key % 3 = 0 THEN d_supply[key \div 3]
                                        ELSE b_supply[key \div 3]
                              ending == IF timestamp > old.expiration
                                        THEN old.expiration ELSE timestamp
                              accrues == /\ data.last_time < old.expiration
                                         /\ timestamp # data.last_time
                                         /\ old.eps # 0
                                         /\ supply # 0
                          IN  res_emis_data'[key] =
                                 IF accrues
                                 THEN [index |-> data.index
                                          + FloorOf((ending - data.last_time) * old.eps,
                                                    SCALAR_7, supply),
                                       last_time |-> timestamp]
                                 ELSE data
             ELSE /\ (key \in DOMAIN res_emis_data') = (key \in DOMAIN res_emis_data)
                  /\ key \in DOMAIN res_emis_data
                        => res_emis_data'[key] = res_emis_data[key]
      ]_vars

C31_Witness ==
    /\ UpdateOk
    /\ result.value.pool_eps = 5000000
    /\ timestamp = 2 * EmisStep
    /\ result.key[1] = 2 * EmisStep
    /\ 3 \in DOMAIN res_emis_data
    /\ res_emis_data[3] = [index |-> 3750000, last_time |-> 2 * EmisStep]
    /\ 1 \in DOMAIN res_emis_data
    /\ res_emis_data[1] = [index |-> 0, last_time |-> 2 * EmisStep]

\* the metadata a set_pool_emissions call was given, and what it names
SharesOf(metadata) ==
    SumOver([j \in 1 .. Len(metadata) |-> metadata[j].share], 1 .. Len(metadata))

KeyOf(entry) == 3 * entry.res_index + (IF entry.res_type = 0 THEN 0 ELSE 1)

\* C32: set_pool_emissions fails with BadRequest, leaving the pool emission
\* config and the share map as they were, exactly when the supplied shares sum
\* to more than 1_0000000; a total of 1_0000000 or less is accepted.
C32_ShareTotalChecked ==
    [][result'.op = "set_pool_emissions" =>
          LET total == SharesOf(result'.value.res_emission_metadata)
          IN  /\ result'.status \in {"Ok", "BadRequest"}
              /\ (result'.status = "BadRequest") = (total > 10000000)
              /\ total <= 10000000 => result'.status = "Ok"
              /\ result'.status = "BadRequest" => UNCHANGED ledger_state
      ]_vars

C32_Witness ==
    /\ result.op = "set_pool_emissions"
    /\ result.status = "BadRequest"
    /\ SharesOf(result.value.res_emission_metadata) = 10000001
    /\ pool_emis_config.config = 24
    /\ pool_emissions = (3 :> 7500000) @@ (4 :> 2500000)
    /\ pool_emis_config.last_time > 0

\* C33: a successful set_pool_emissions leaves a bitmask and a share map that
\* hold exactly the entries supplied, whatever they held before, keeps
\* last_time, and writes no reserve emission config or data.
C33_ReplacesShares ==
    [][(result'.op = "set_pool_emissions" /\ result'.status = "Ok") =>
          LET metadata == result'.value.res_emission_metadata
              entries == 1 .. Len(metadata)
              supplied == {KeyOf(metadata[j]) : j \in entries}
          IN  /\ DOMAIN pool_emissions' = supplied
              /\ \A j \in entries :
                    (\A l \in entries : KeyOf(metadata[l]) = KeyOf(metadata[j]) => l <= j)
                       => pool_emissions'[KeyOf(metadata[j])] = metadata[j].share
              /\ \A bit \in 0 .. 8 :
                    flagged(pool_emis_config'.config, bit) = (bit \in supplied)
              /\ pool_emis_config'.config < 2 ^ 9
              /\ pool_emis_config'.last_time = pool_emis_config.last_time
              /\ UNCHANGED <<res_emis_config, res_emis_data>>
      ]_vars

C33_Witness ==
    /\ result.op = "set_pool_emissions"
    /\ result.status = "Ok"
    /\ result.value.res_emission_metadata
          = <<Metadata(0, 1, 3333333), Metadata(1, 0, 3333333)>>
    /\ pool_emis_config.config = 10
    /\ pool_emis_config.last_time > 0
    /\ pool_emissions = (1 :> 3333333) @@ (3 :> 3333333)
    /\ DOMAIN res_emis_config = {3, 4}
    /\ res_emis_config[3].eps = 3750000

\* the reserve tokens whose config expires at the expiration just applied
ConfiguredNow == {k \in DOMAIN res_emis_config :
                     res_emis_config[k].expiration = result.key[1]}

\* C38: after a successful update_emissions(next_exp, pool_eps) the eps of
\* the configs that expire at next_exp sum to at most pool_eps.
C38_EpsWithinPool ==
    UpdateOk =>
        SumOver([k \in ConfiguredNow |-> res_emis_config[k].eps], ConfiguredNow)
            <= result.value.pool_eps

C38_Witness ==
    /\ UpdateOk
    /\ ConfiguredNow = {1, 3}
    /\ res_emis_config[1].eps = 1666666
    /\ res_emis_config[3].eps = 1666666
    /\ pool_emissions = (1 :> 3333333) @@ (3 :> 3333333)

\* ------------------------------------------------------------------------
\* Debt repaid by an auction fill
\* ------------------------------------------------------------------------

\* reserves whose debt the auction filled by the step repays
RepaidBy(key) ==
    IF key[1] = InterestAuction THEN {}
    ELSE DOMAIN auctions[key].bid \cap ReserveIdx

\* d-tokens of reserve i the step's fill repays
RepaidAmount(key, i) ==
    IF i \notin RepaidBy(key) THEN 0
    ELSE fixed_mul_floor(auctions[key].bid[i],
                         get_fill_modifiers(sequence, auctions[key])[1], SCALAR_7)

\* d-tokens of reserve i held as liabilities by all addresses
TotalLiabilities(i) ==
    SumOver([a \in Addresses |-> positions[a].liabilities[i]], Addresses)

FillOk == result'.op = "fill" /\ result'.status = "Ok"

C35_Step ==
    FillOk =>
        LET calls == result'.value.emissions
        IN  /\ Len(calls) = Cardinality(RepaidBy(result'.key))
            /\ \A i \in RepaidBy(result'.key) :
                  \E n \in 1 .. Len(calls) :
                     calls[n] = [res_token_id |-> i * 2,
                                 supply |-> d_supply[i],
                                 user |-> result'.key[2],
                                 balance |-> positions[result'.key[2]].liabilities[i]]

\* C35: fill_debt_token calls update_emissions for the liability token (key
\* reserve index times 2) before it applies the repayment: each call of a fill
\* carries the reserve's d_supply and the subject's liability balance as they
\* were before the fill reduced them.
C35_EmissionsSeeOldDebt == [][C35_Step]_vars

C35_Witness ==
    /\ result.op = "fill"
    /\ result.status = "Ok"
    /\ \E n \in 1 .. Len(result.value.emissions) :
          LET call == result.value.emissions[n]
          IN  /\ call.res_token_id = 2
              /\ call.supply = 5
              /\ d_supply[1] = 2
              /\ call.balance = 3
              /\ positions[call.user].liabilities[1] = 0

C36_Step ==
    FillOk =>
        \A i \in ReserveIdx :
           LET user == result'.key[2]
               debt_token_amount == RepaidAmount(result'.key, i)
               underlying_amount == to_asset_from_d_token(i, debt_token_amount)
           IN  /\ d_supply'[i] = d_supply[i] - debt_token_amount
               /\ positions'[user].liabilities[i]
                     = positions[user].liabilities[i] - debt_token_amount
               /\ d_supply'[i] - TotalLiabilities(i)' = d_supply[i] - TotalLiabilities(i)
               /\ i \in RepaidBy(result'.key) =>
                     /\ result'.value.bid[i] = underlying_amount
                     /\ balances'[i][PoolAddress]
                           = balances[i][PoolAddress] + underlying_amount
                     /\ \E spender \in Fillers :
                           /\ balances'[i][spender]
                                 = balances[i][spender] - underlying_amount
                           /\ allowances'[i][spender]
                                 = allowances[i][spender] - underlying_amount

\* C36: a fill takes the same number of d-tokens off the reserve's d_supply
\* and off the subject's liabilities, so d_supply less the liabilities of all
\* addresses is the same after the fill; it pulls to_asset_from_d_token of
\* that number from the filler into the pool and reports that amount as the bid.
C36_DebtRepaidInStep == [][C36_Step]_vars

C36_Witness ==
    /\ result.op = "fill"
    /\ result.status = "Ok"
    /\ result.key[1] = UserLiquidation
    /\ result.value.bid[1] = 4
    /\ d_supply[1] = 2
    /\ positions[result.key[2]].liabilities[1] = 0
    /\ balances[1][PoolAddress] = MaxFunds + 4
    /\ balances[1][Frodo] = MaxFunds - 4

\* ------------------------------------------------------------------------
\* Keys of the pool-wide auctions
\* ------------------------------------------------------------------------

PoolWide == {BadDebtAuction, InterestAuction}

\* keys fill is called with when the pool-wide auction types are also asked
\* for under a user
PoolWideKeys ==
    CalledKeys \cup {<<BadDebtAuction, Samwise>>, <<InterestAuction, Samwise>>}

KeyNext ==
    \/ AdvanceLedger
    \/ \E t \in AuctionTypeCodes : create(t)
    \/ \E u \in Users, l \in LiqChoices : create_liquidation(u, l)
    \/ \E key \in PoolWideKeys, f \in Fillers : fill(key[1], key[2], f)

KeySpec == Init /\ [][KeyNext]_vars

C37_Keyed ==
    \A key \in DOMAIN auctions : key[1] \in PoolWide => key[2] = get_backstop

C37_Step ==
    /\ (result'.op = "create" /\ result'.status = "Ok")
          => /\ result'.key[1] \in PoolWide
             /\ auctions' = set_auction(auctions, result'.key[1], get_backstop,
                                        result'.value)
    /\ (/\ result'.op = "fill"
        /\ result'.key[1] \in PoolWide
        /\ result'.key[2] # get_backstop)
          => (result'.status = "BadRequest" /\ UNCHANGED ledger_state)

\* C37: create stores a bad-debt or interest auction under (type, backstop),
\* so every record of those types is under the backstop and there is at most
\* one of each; a fill of those types for any other address finds no record.
C37_BackstopKeyed == [](C37_Keyed) /\ [][C37_Step]_vars

C37_Witness ==
    /\ result.op = "fill"
    /\ result.key = <<BadDebtAuction, Samwise>>
    /\ result.status = "BadRequest"
    /\ <<BadDebtAuction, Backstop>> \in DOMAIN auctions

\* ------------------------------------------------------------------------
\* The b-token contract
\* ------------------------------------------------------------------------

\* b-tokens minted in all
MaxMinted == 2

\* accounts that hold and move b-tokens
TokenUsers == {Samwise, Frodo}

\* amounts a caller names: a negative one, and one and two b-tokens
TokenAmounts == {-1, 1, 2}

\* arguments of initialize
InitChoices ==
    {[admin |-> PoolAddress, decimal |-> 7, name |-> "Blend USDC", symbol |-> "bUSDC"],
     [admin |-> Frodo, decimal |-> 6, name |-> "other", symbol |-> "OTH"]}

\* arguments of initialize_asset
AssetChoices ==
    {[asset |-> "USDC", index |-> 0], [asset |-> "XLM", index |-> 1]}

has_pool == token_storage.pool # None

has_asset == token_storage.asset # None

read_pool == token_storage.pool[1]

TotalBalance == SumOver(token_storage.balance, Addresses)

\* an invocation of the b-token that fails: nothing but its error is left
TokenFail(op, from, err, inputs) == Reject(op, <<0, from>>, err, inputs)

\* an invocation of the b-token that ends well with the storage it wrote
TokenOk(op, from, inputs, storage) ==
    /\ token_storage' = storage
    /\ result' = Outcome(op, <<0, from>>, "Ok", inputs)
    /\ UNCHANGED <<sequence, auctions, positions, d_supply, bstop_credit, prices,
                   balances, allowances, bstop_balances, reserve_state,
                   emission_state, collateralized>>

\* balance::spend_balance then balance::receive_balance on a storage
move_balance(storage, from, to, amount) ==
    LET spent == [storage EXCEPT !.balance[from] = @ - amount]
    IN  [spent EXCEPT !.balance[to] = @ + amount]

initialize_Overwrites(admin, decimal, name, symbol) ==
    TokenOk("initialize", admin,
            [admin |-> admin, decimal |-> decimal, name |-> name, symbol |-> symbol],
            [token_storage EXCEPT !.pool = Some(admin), !.decimals = Some(decimal),
                                  !.name = Some(name), !.symbol = Some(symbol)])

initialize(admin, decimal, name, symbol) ==
    LET inputs == [admin |-> admin, decimal |-> decimal, name |-> name,
                   symbol |-> symbol]
    IN  IF has_pool
        THEN TokenFail("initialize", admin, "AlreadyInitializedError", inputs)
        ELSE TokenOk("initialize", admin, inputs,
                     [token_storage EXCEPT !.pool = Some(admin),
                                           !.decimals = Some(decimal),
                                           !.name = Some(name),
                                           !.symbol = Some(symbol)])

\* admin::require_is_pool: the error of a call by another address than the pool
require_is_pool(admin) ==
    IF ~has_pool THEN "Panic"
    ELSE IF admin # read_pool THEN "UnauthorizedError"
    ELSE "Ok"

initialize_asset(admin, asset, index, auth) ==
    LET inputs == [admin |-> admin, asset |-> asset, index |-> index, auth |-> auth]
    IN  IF require_is_pool(admin) # "Ok"
        THEN TokenFail("initialize_asset", admin, require_is_pool(admin), inputs)
        ELSE IF ~auth
        THEN TokenFail("initialize_asset", admin, "AuthError", inputs)
        ELSE IF has_asset
        THEN TokenFail("initialize_asset", admin, "AlreadyInitializedError", inputs)
        ELSE TokenOk("initialize_asset", admin, inputs,
                     [token_storage EXCEPT
                         !.asset = Some([id |-> asset, res_index |-> index]),
                         !.pool = Some(admin)])

mint(to, amount, auth) ==
    LET inputs == [to |-> to, amount |-> amount, auth |-> auth]
    IN  /\ TotalBalance + amount <= MaxMinted
        /\ IF ~has_pool THEN TokenFail("mint", to, "Panic", inputs)
           ELSE IF ~auth THEN TokenFail("mint", to, "AuthError", inputs)
           ELSE IF amount < 0 THEN TokenFail("mint", to, "NegativeAmountError", inputs)
           ELSE TokenOk("mint", to, inputs,
                        [token_storage EXCEPT !.balance[to] = @ + amount])

increase_allowance(from, spender, amount, auth) ==
    LET inputs == [from |-> from, spender |-> spender, amount |-> amount,
                   auth |-> auth]
    IN  /\ token_storage.allowance[from][spender] + amount <= MaxMinted
        /\ IF ~auth THEN TokenFail("increase_allowance", from, "AuthError", inputs)
           ELSE IF amount < 0
           THEN TokenFail("increase_allowance", from, "NegativeAmountError", inputs)
           ELSE TokenOk("increase_allowance", from, inputs,
                        [token_storage EXCEPT !.allowance[from][spender] = @ + amount])

Token_transfer(from, to, amount, auth) ==
    LET inputs == [from |-> from, to |-> to, amount |-> amount, auth |-> auth]
    IN  IF ~auth THEN TokenFail("transfer", from, "AuthError", inputs)
        ELSE IF amount < 0
        THEN TokenFail("transfer", from, "NegativeAmountError", inputs)
        ELSE IF from \in collateralized
        THEN TokenFail("transfer", from, "CollateralizedError", inputs)
        ELSE IF token_storage.balance[from] < amount
        THEN TokenFail("transfer", from, "BalanceError", inputs)
        ELSE TokenOk("transfer", from, inputs,
                     move_balance(token_storage, from, to, amount))

Token_transfer_from_NoCollateralCheck(spender, from, to, amount, auth) ==
    LET inputs == [spender |-> spender, from |-> from, to |-> to,
                   amount |-> amount, auth |-> auth]
    IN  IF ~auth THEN TokenFail("transfer_from", from, "AuthError", inputs)
        ELSE IF amount < 0
        THEN TokenFail("transfer_from", from, "NegativeAmountError", inputs)
        ELSE IF token_storage.allowance[from][spender] < amount
        THEN TokenFail("transfer_from", from, "AllowanceError", inputs)
        ELSE IF token_storage.balance[from] < amount
        THEN TokenFail("transfer_from", from, "BalanceError", inputs)
        ELSE TokenOk("transfer_from", from, inputs,
                     move_balance([token_storage EXCEPT
                                      !.allowance[from][spender] = @ - amount],
                                  from, to, amount))

Token_transfer_from(spender, from, to, amount, auth) ==
    LET inputs == [spender |-> spender, from |-> from, to |-> to,
                   amount |-> amount, auth |-> auth]
    IN  IF ~auth THEN TokenFail("transfer_from", from, "AuthError", inputs)
        ELSE IF amount < 0
        THEN TokenFail("transfer_from", from, "NegativeAmountError", inputs)
        ELSE IF from \in collateralized
        THEN TokenFail("transfer_from", from, "CollateralizedError", inputs)
        ELSE IF token_storage.allowance[from][spender] < amount
        THEN TokenFail("transfer_from", from, "AllowanceError", inputs)
        ELSE IF token_storage.balance[from] < amount
        THEN TokenFail("transfer_from", from, "BalanceError", inputs)
        ELSE TokenOk("transfer_from", from, inputs,
                     move_balance([token_storage EXCEPT
                                      !.allowance[from][spender] = @ - amount],
                                  from, to, amount))

\* the pool's record of who uses the b-token as collateral changes
SetCollateralized(users) ==
    /\ collateralized # users
    /\ collateralized' = users
    /\ result' = NoResult
    /\ UNCHANGED <<sequence, auctions, positions, d_supply, bstop_credit, prices,
                   balances, allowances, bstop_balances, reserve_state,
                   emission_state, token_storage>>

TokenInit ==
    /\ sequence = 0
    /\ reserve_config = fresh_reserve
    /\ b_supply = [i \in ReserveIdx |-> 0]
    /\ d_supply = [i \in ReserveIdx |-> 0]
    /\ pool_status = 0
    /\ NoEmissions
    /\ NoToken
    /\ auctions = EmptyMap
    /\ positions = [a \in Addresses |-> NoPositions]
    /\ bstop_credit = [i \in ReserveIdx |-> 0]
    /\ prices = [i \in ReserveIdx |-> SCALAR_7]
    /\ balances = [i \in ReserveIdx |-> [x \in Addresses |-> 0]]
    /\ allowances = [i \in ReserveIdx |-> [x \in Addresses |-> 0]]
    /\ bstop_balances = [x \in Addresses |-> 0]
    /\ result = NoResult

TokenNext ==
    \/ \E c \in InitChoices : initialize(c.admin, c.decimal, c.name, c.symbol)
    \/ \E admin \in {PoolAddress, Frodo}, c \in AssetChoices, auth \in BOOLEAN :
          initialize_asset(admin, c.asset, c.index, auth)
    \/ \E to \in {Samwise}, amount \in {-1, 2}, auth \in BOOLEAN :
          mint(to, amount, auth)
    \/ \E amount \in {-1, 1}, auth \in BOOLEAN :
          increase_allowance(Samwise, Frodo, amount, auth)
    \/ \E from \in TokenUsers, to \in TokenUsers, amount \in TokenAmounts,
          auth \in BOOLEAN : Token_transfer(from, to, amount, auth)
    \/ \E from \in TokenUsers, amount \in TokenAmounts, auth \in BOOLEAN :
          Token_transfer_from(Frodo, from, Backstop, amount, auth)
    \/ \E users \in {{}, {Samwise}} : SetCollateralized(users)

TokenSpec == TokenInit /\ [][TokenNext]_vars

\* what a transfer that ends well leaves: amount moved from from to to, and,
\* for transfer_from, the spender's allowance spent
Transferred(op, args) ==
    LET spent == IF op = "transfer_from"
                 THEN [token_storage EXCEPT
                          !.allowance[args.from][args.spender] = @ - args.amount]
                 ELSE token_storage
        taken == [spent EXCEPT !.balance[args.from] = @ - args.amount]
    IN  [taken EXCEPT !.balance[args.to] = @ + args.amount]

C39_Step ==
    result'.op \in {"transfer", "transfer_from"} =>
        LET args == result'.value
        IN  /\ (args.amount < 0 \/ args.from \in collateralized)
                  => /\ result'.status \notin {"Ok", "AllowanceError", "BalanceError"}
                     /\ token_storage' = token_storage
            /\ (args.auth /\ args.amount < 0)
                  => result'.status = "NegativeAmountError"
            /\ result'.status = "Ok"
                  => /\ args.amount >= 0
                     /\ args.from \notin collateralized
                     /\ token_storage' = Transferred(result'.op, args)
                     /\ TotalBalance' = TotalBalance

\* C39: transfer and transfer_from of the b-token fail and leave every balance
\* and allowance as it was when from is collateralized or the amount is
\* negative, and the failure is never one of spending the allowance or the
\* balance; a transfer that succeeds moves the amount and leaves the sum of
\* the balances unchanged.
C39_TransferChecksFirst == [][C39_Step]_vars

C39_Witness ==
    /\ result.op = "transfer_from"
    /\ result.status = "CollateralizedError"
    /\ result.value.amount > 0
    /\ token_storage.balance[result.value.from] >= result.value.amount
    /\ token_storage.allowance[result.value.from][result.value.spender]
          >= result.value.amount

\* the entries initialize writes and the entries initialize_asset writes
InitializedEntries(storage) ==
    <<storage.pool, storage.decimals, storage.name, storage.symbol>>

AssetEntries(storage) == <<storage.asset, storage.pool>>

C40_InitializeOnce ==
    /\ has_pool => InitializedEntries(token_storage') = InitializedEntries(token_storage)
    /\ (has_pool /\ result'.op = "initialize")
          => /\ result'.status = "AlreadyInitializedError"
             /\ token_storage' = token_storage

C40_Step ==
    /\ C40_InitializeOnce
    /\ has_asset => AssetEntries(token_storage') = AssetEntries(token_storage)
    /\ (has_asset /\ result'.op = "initialize_asset")
          => /\ result'.status # "Ok"
             /\ token_storage' = token_storage
             /\ (result'.value.auth /\ result'.value.admin = read_pool)
                   <=> result'.status = "AlreadyInitializedError"

\* C40: once initialize has succeeded every later initialize fails with
\* AlreadyInitializedError and pool, decimals, name and symbol stay as they
\* are; once initialize_asset has succeeded every later initialize_asset
\* fails and the asset and the pool stay as they are, with
\* AlreadyInitializedError exactly when the call is made and authorized by
\* the pool (the checks of the caller come first).
C40_InitializedOnce == [][C40_Step]_vars

C40_LaterAssetCall ==
    (has_asset /\ result'.op = "initialize_asset")
        => /\ result'.status = "AlreadyInitializedError"
           /\ token_storage' = token_storage

\* C40 as stated: every later initialize and every later initialize_asset
\* fails with AlreadyInitializedError.
C40_AlwaysAlreadyInitialized == [][C40_InitializeOnce /\ C40_LaterAssetCall]_vars

C40_Witness ==
    /\ result.op = "initialize_asset"
    /\ result.status = "AlreadyInitializedError"
    /\ result.value.asset = "XLM"
    /\ token_storage.asset = Some([id |-> "USDC", res_index |-> 0])
    /\ token_storage.pool = Some(PoolAddress)
    /\ token_storage.decimals = Some(7)

====
